---- MODULE Spec2Model ----
(***************************************************************************)
(* Model of the VaporFrame memory subsystem (MemoryManager.cpp / .h):      *)
(* MemoryPool, StackAllocator, MemoryTracker and the MemoryManager facade. *)
(* Addresses, sizes and the width of size_t are scaled down; the           *)
(* algorithms are those of the source, statement by statement.             *)
(***************************************************************************)
EXTENDS Integers, Sequences, FiniteSets, TLC

VARIABLES
    pool,       \* the MemoryPool under test (SpecPool)
    tracker,    \* the MemoryTracker singleton
    mapped,     \* the ranges the OS has mapped (mmap / VirtualAlloc)
    heap,       \* the blocks the platform heap has handed out (malloc, aligned_alloc)
    mgr,        \* the MemoryManager singleton
    live,       \* history: the allocations handed to the caller and not yet released
    issued,     \* history: how many pointers allocate and reallocate calls have returned
    pc,         \* where the calling thread is, and how its last call ended
    sysCall,    \* history: what the last call passed to the platform's free / realloc
    stack,      \* the StackAllocator under test (SpecStack)
    markers,    \* history: the markers getMarker returned, with the offset at that time
    called,     \* history: the last call on the stack allocator and its argument
    threads     \* what each thread is doing (SpecThreads, SpecProbe)

\* the variables of the stack allocator's and of the threads' specifications
stackVars == <<stack, markers, called>>
threadVars == <<threads>>

vars == <<pool, tracker, mapped, heap, mgr, live, issued, pc, sysCall, stackVars, threadVars>>

----------------------------------------------------------------------------
\* Bounds of the model.

\* scaled width of std::size_t / std::uintptr_t, in bits
WordBits == 8
\* scaled page size of the OS, in bits: mappings start at multiples of 2^PageBits
PageBits == 3
\* number of page slots of the scaled address space
NumPages == 5
\* allocate calls that succeed, per allocator
MaxAllocs == 2

Word == 2 ^ WordBits

PageSize == 2 ^ PageBits

\* request sizes and alignments the callers pass
Sizes == {0, 3, 12}
Alignments == {1, 3, 4, 2 * PageSize}
ExpandSizes == {4, 12}

\* the pool configurations under test: initialSize, maxSize, blockSize, enableTracking
PoolConfigs ==
    {[initialSize |-> 8, maxSize |-> 20, blockSize |-> 4, enableTracking |-> t,
      name |-> "DefaultPool"] : t \in BOOLEAN}

NullPtr == 0
NoBlock == 0
NoThread == "none"
Me == "caller"

\* the default of the `alignment` parameter of allocate
DefaultAlignment == 8

----------------------------------------------------------------------------
\* Machine arithmetic.

Max(a, b) == IF a >= b THEN a ELSE b

WAdd(a, b) == (a + b) % Word

WSub(a, b) == (a + Word - b) % Word

RECURSIVE BitAnd(_, _)
BitAnd(x, y) ==
    IF x = 0 \/ y = 0 THEN 0
    ELSE (x % 2) * (y % 2) + 2 * BitAnd(x \div 2, y \div 2)

BitNot(x) == Word - 1 - x

IsPowerOfTwo(value) == value # 0 /\ BitAnd(value, WSub(value, 1)) = 0

\* (addr + alignment - 1) & ~(alignment - 1)
\* AlignUp that does not round: the address as it is
AlignUpUnrounded(addr, alignment) == addr

AlignUp(addr, alignment) ==
    BitAnd(WSub(WAdd(addr, alignment), 1), BitNot(WSub(alignment, 1)))

Padding(addr, alignment) == WSub(AlignUp(addr, alignment), addr)

----------------------------------------------------------------------------
\* The operating system and the platform heap.

Range(lo, size) == lo .. (lo + size - 1)

RangeOf(r) == Range(r.base, r.size)

\* [b, b + size) meets none of the ranges
Clear(ranges, b, size) == \A r \in ranges : b + size <= r.base \/ r.base + r.size <= b

Lowest(S) == {b \in S : \A c \in S : b <= c}

AddrLimit == PageSize * (NumPages + 1)

\* what allocateFromSystem(size) may answer: null, or the base of a free range
FreeBases(size) ==
    {b \in {PageSize * k : k \in 1..NumPages} :
        /\ size > 0
        /\ b + size <= AddrLimit
        /\ Clear(mapped \cup heap, b, size)}

SysChoices(size) == {NullPtr} \cup Lowest(FreeBases(size))

----------------------------------------------------------------------------
\* MemoryStats and MemoryTracker.

ZeroStats ==
    [totalAllocated |-> 0, totalFreed |-> 0, peakUsage |-> 0, currentUsage |-> 0,
     allocationCount |-> 0, deallocationCount |-> 0]

StatsAlloc(s, size) ==
    LET cur == WAdd(s.currentUsage, size) IN
    [s EXCEPT !.totalAllocated = WAdd(@, size),
              !.currentUsage = cur,
              !.allocationCount = WAdd(@, 1),
              !.peakUsage = Max(@, cur)]

StatsFree(s, size) ==
    [s EXCEPT !.totalFreed = WAdd(@, size),
              !.currentUsage = WSub(@, size),
              !.deallocationCount = WAdd(@, 1)]

Without(f, k) == [x \in DOMAIN f \ {k} |-> f[x]]

With(f, k, v) == [x \in DOMAIN f \cup {k} |-> IF x = k THEN v ELSE f[x]]

EmptyMap == [x \in {} |-> 0]

NewTracker == [allocations |-> EmptyMap, globalStats |-> ZeroStats, trackingEnabled |-> TRUE]

\* trackAllocation that replaces the record of a pointer it knows without counting
TrackAllocationOnce(trk, ptr, size, alignment, tag, file, line) ==
    IF ~trk.trackingEnabled THEN trk
    ELSE [trk EXCEPT
            !.allocations = With(@, ptr,
                [size |-> size, alignment |-> alignment, tag |-> tag,
                 file |-> file, line |-> line]),
            !.globalStats = IF ptr \in DOMAIN trk.allocations THEN @ ELSE StatsAlloc(@, size)]

TrackAllocation(trk, ptr, size, alignment, tag, file, line) ==
    IF ~trk.trackingEnabled THEN trk
    ELSE [trk EXCEPT
            !.allocations = With(@, ptr,
                [size |-> size, alignment |-> alignment, tag |-> tag,
                 file |-> file, line |-> line]),
            !.globalStats = StatsAlloc(@, size)]

\* trackDeallocation without the `if (!trackingEnabled) return;`
TrackDeallocationAlways(trk, ptr) ==
    IF ptr \in DOMAIN trk.allocations
    THEN [trk EXCEPT
            !.globalStats = StatsFree(@, trk.allocations[ptr].size),
            !.allocations = Without(@, ptr)]
    ELSE trk

TrackDeallocation(trk, ptr) ==
    IF ~trk.trackingEnabled THEN trk
    ELSE IF ptr \in DOMAIN trk.allocations
         THEN [trk EXCEPT
                 !.globalStats = StatsFree(@, trk.allocations[ptr].size),
                 !.allocations = Without(@, ptr)]
         ELSE trk

TrackReallocation(trk, oldPtr, newPtr, newSize) ==
    IF ~trk.trackingEnabled THEN trk
    ELSE LET t1 == IF oldPtr \in DOMAIN trk.allocations
                   THEN [trk EXCEPT
                           !.globalStats.totalFreed = WAdd(@, trk.allocations[oldPtr].size),
                           !.globalStats.currentUsage = WSub(@, trk.allocations[oldPtr].size),
                           !.allocations = Without(@, oldPtr)]
                   ELSE trk
         IN [t1 EXCEPT
               !.allocations = With(@, newPtr,
                   [size |-> newSize, alignment |-> 8, tag |-> "realloc",
                    file |-> "", line |-> 0]),
               !.globalStats = StatsAlloc(@, newSize)]

----------------------------------------------------------------------------
\* MemoryPool.  A pool is a record: config, pools (the arenas, in the order they
\* were mapped; the code keeps the base, the OS knows the length), blocks (the
\* Block nodes on the C++ heap, by identity), freeBlocks (the vector of Block*),
\* blockMap (the unordered_map from data pointer to Block*), stats, and lockedBy
\* (the thread that holds the pool's mutex).

EmptyPool(config) ==
    [config |-> config, pools |-> <<>>, blocks |-> EmptyMap, freeBlocks |-> <<>>,
     blockMap |-> EmptyMap, stats |-> ZeroStats, lockedBy |-> NoThread]

\* the address `new Block()` returns: any unused identity; the least is taken
NewId(p) ==
    CHOOSE i \in 1..(Cardinality(DOMAIN p.blocks) + 1) :
        /\ i \notin DOMAIN p.blocks
        /\ \A j \in 1..(i - 1) : j \in DOMAIN p.blocks

NewPool(config, base) ==
    IF base = NullPtr THEN EmptyPool(config)
    ELSE [EmptyPool(config) EXCEPT
            !.pools = <<[base |-> base, size |-> config.initialSize]>>,
            !.blocks = 1 :> [data |-> base, size |-> config.initialSize, used |-> FALSE,
                             next |-> NoBlock, prev |-> NoBlock],
            !.freeBlocks = <<1>>,
            !.blockMap = base :> 1]

MinOf(S) == CHOOSE x \in S : \A y \in S : x <= y

RemoveFirst(seq, x) ==
    LET idx == {i \in 1..Len(seq) : seq[i] = x} IN
    IF idx = {} THEN seq
    ELSE SubSeq(seq, 1, MinOf(idx) - 1) \o SubSeq(seq, MinOf(idx) + 1, Len(seq))

Fits(blk, size, alignment) == WAdd(Padding(blk.data, alignment), size) <= blk.size

\* findFreeBlock that does not look at block->used
FindFreeBlockIgnoringUsed(p, size, alignment) ==
    LET idx == {i \in 1..Len(p.freeBlocks) : Fits(p.blocks[p.freeBlocks[i]], size, alignment)}
    IN IF idx = {} THEN NoBlock ELSE p.freeBlocks[MinOf(idx)]

\* findFreeBlock that returns the smallest block that fits
FindFreeBlockBestFit(p, size, alignment) ==
    LET idx == {i \in 1..Len(p.freeBlocks) :
                   /\ ~p.blocks[p.freeBlocks[i]].used
                   /\ Fits(p.blocks[p.freeBlocks[i]], size, alignment)}
    IN IF idx = {} THEN NoBlock
       ELSE p.freeBlocks[CHOOSE i \in idx :
                \A j \in idx : p.blocks[p.freeBlocks[i]].size <= p.blocks[p.freeBlocks[j]].size]

FindFreeBlock(p, size, alignment) ==
    LET idx == {i \in 1..Len(p.freeBlocks) :
                   /\ ~p.blocks[p.freeBlocks[i]].used
                   /\ Fits(p.blocks[p.freeBlocks[i]], size, alignment)}
    IN IF idx = {} THEN NoBlock ELSE p.freeBlocks[MinOf(idx)]

\* splitBlock that leaves block->size as it was
SplitBlockKeepingSize(p, b, usedSize) ==
    LET old == p.blocks[b]
        remainingSize == old.size - usedSize
    IN
    IF usedSize >= old.size THEN p
    ELSE IF remainingSize < p.config.blockSize THEN p
    ELSE
        LET n == NewId(p)
            newBlock == [data |-> WAdd(old.data, usedSize), size |-> remainingSize,
                         used |-> FALSE, next |-> old.next, prev |-> b]
            b1 == With(p.blocks, n, newBlock)
            b2 == IF old.next # NoBlock THEN [b1 EXCEPT ![old.next].prev = n] ELSE b1
            b3 == [b2 EXCEPT ![b].next = n]
        IN [p EXCEPT !.blocks = b3,
                     !.freeBlocks = Append(@, n),
                     !.blockMap = With(@, newBlock.data, n)]

\* splitBlock without the `remainingSize < config.blockSize` return
SplitBlockAnyRemainder(p, b, usedSize) ==
    LET old == p.blocks[b]
        remainingSize == old.size - usedSize
    IN
    IF usedSize >= old.size THEN p
    ELSE
        LET n == NewId(p)
            newBlock == [data |-> WAdd(old.data, usedSize), size |-> remainingSize,
                         used |-> FALSE, next |-> old.next, prev |-> b]
            b1 == With(p.blocks, n, newBlock)
            b2 == IF old.next # NoBlock THEN [b1 EXCEPT ![old.next].prev = n] ELSE b1
            b3 == [b2 EXCEPT ![b].next = n, ![b].size = usedSize]
        IN [p EXCEPT !.blocks = b3,
                     !.freeBlocks = Append(@, n),
                     !.blockMap = With(@, newBlock.data, n)]

SplitBlock(p, b, usedSize) ==
    LET old == p.blocks[b]
        remainingSize == old.size - usedSize
    IN
    IF usedSize >= old.size THEN p
    ELSE IF remainingSize < p.config.blockSize THEN p
    ELSE
        LET n == NewId(p)
            newBlock == [data |-> WAdd(old.data, usedSize), size |-> remainingSize,
                         used |-> FALSE, next |-> old.next, prev |-> b]
            b1 == With(p.blocks, n, newBlock)
            b2 == IF old.next # NoBlock THEN [b1 EXCEPT ![old.next].prev = n] ELSE b1
            b3 == [b2 EXCEPT ![b].next = n, ![b].size = usedSize]
        IN [p EXCEPT !.blocks = b3,
                     !.freeBlocks = Append(@, n),
                     !.blockMap = With(@, newBlock.data, n)]

MergeNext(p, b) ==
    LET blk == p.blocks[b]
        nx == blk.next
    IN
    IF nx # NoBlock /\ ~p.blocks[nx].used
    THEN LET nextBlock == p.blocks[nx]
             b1 == [p.blocks EXCEPT ![b].size = WAdd(@, nextBlock.size),
                                    ![b].next = nextBlock.next]
             b2 == IF nextBlock.next # NoBlock
                   THEN [b1 EXCEPT ![nextBlock.next].prev = b] ELSE b1
         IN [p EXCEPT !.blocks = Without(b2, nx),
                      !.freeBlocks = RemoveFirst(@, nx),
                      !.blockMap = Without(@, nextBlock.data)]
    ELSE p

MergePrev(p, b) ==
    LET blk == p.blocks[b]
        pv == blk.prev
    IN
    IF pv # NoBlock /\ ~p.blocks[pv].used
    THEN LET b1 == [p.blocks EXCEPT ![pv].size = WAdd(@, blk.size),
                                    ![pv].next = blk.next]
             b2 == IF blk.next # NoBlock THEN [b1 EXCEPT ![blk.next].prev = pv] ELSE b1
         IN [p EXCEPT !.blocks = Without(b2, b),
                      !.freeBlocks = RemoveFirst(@, b),
                      !.blockMap = Without(@, blk.data)]
    ELSE p

\* mergeAdjacentBlocks without the merge with the previous block
MergeAdjacentBlocksNextOnly(p, b) == MergeNext(p, b)

MergeAdjacentBlocks(p, b) == MergePrev(MergeNext(p, b), b)

\* the loop `for (void* pool : pools) totalSize += config.initialSize`
ExpandTotalSize(p) == (Len(p.pools) * p.config.initialSize) % Word

\* whether expand gets as far as asking the OS
ExpandAsks(p, additionalSize) ==
    /\ p.pools # <<>>
    /\ ~(WAdd(ExpandTotalSize(p), additionalSize) > p.config.maxSize)

\* base is what allocateFromSystem answers when it is asked
Expand(p, additionalSize, base) ==
    IF ~ExpandAsks(p, additionalSize) \/ base = NullPtr THEN [pool |-> p, ok |-> FALSE]
    ELSE LET n == NewId(p) IN
         [pool |-> [p EXCEPT
                      !.pools = Append(@, [base |-> base, size |-> additionalSize]),
                      !.blocks = With(@, n, [data |-> base, size |-> additionalSize,
                                             used |-> FALSE, next |-> NoBlock,
                                             prev |-> NoBlock]),
                      !.freeBlocks = Append(@, n),
                      !.blockMap = With(@, base, n)],
          ok |-> TRUE]

\* allocate, from `// Calculate aligned address` on, for the block found
AllocateFrom(p, trk, b, size, alignment) ==
    LET blk == p.blocks[b]
        alignedOffset == AlignUp(blk.data, alignment)
        padding == WSub(alignedOffset, blk.data)
    IN
    IF WAdd(padding, size) > blk.size THEN [pool |-> p, trk |-> trk, result |-> NullPtr]
    ELSE
        LET p1 == IF WAdd(padding, size) < blk.size
                  THEN SplitBlock(p, b, WAdd(padding, size)) ELSE p
            p2 == [p1 EXCEPT !.blocks[b].used = TRUE,
                             !.stats = StatsAlloc(@, size)]
        IN [pool |-> p2,
            trk |-> IF p.config.enableTracking
                    THEN TrackAllocation(trk, alignedOffset, size, alignment,
                                         p.config.name, "", 0)
                    ELSE trk,
            result |-> alignedOffset]

PoolAllocate(p, trk, size, alignment, base) ==
    IF size = 0 THEN [pool |-> p, trk |-> trk, result |-> NullPtr]
    ELSE
        LET block == FindFreeBlock(p, size, alignment) IN
        IF block # NoBlock THEN AllocateFrom(p, trk, block, size, alignment)
        ELSE
            LET e == Expand(p, Max(size, p.config.blockSize), base)
                again == FindFreeBlock(e.pool, size, alignment)
            IN
            IF ~e.ok THEN [pool |-> p, trk |-> trk, result |-> NullPtr]
            ELSE IF again = NoBlock THEN [pool |-> e.pool, trk |-> trk, result |-> NullPtr]
            ELSE AllocateFrom(e.pool, trk, again, size, alignment)

\* allocate, up to `// Calculate aligned address`: the block it goes on with
\* (NoBlock: it returns nullptr), and the pool after the expand it may have made
PoolFind(p, size, alignment, base) ==
    IF size = 0 THEN [pool |-> p, block |-> NoBlock]
    ELSE
        LET block == FindFreeBlock(p, size, alignment) IN
        IF block # NoBlock THEN [pool |-> p, block |-> block]
        ELSE
            LET e == Expand(p, Max(size, p.config.blockSize), base) IN
            IF ~e.ok THEN [pool |-> p, block |-> NoBlock]
            ELSE [pool |-> e.pool, block |-> FindFreeBlock(e.pool, size, alignment)]

\* the entries of blockMap whose range holds ptr; the loop takes the first one the
\* unordered_map's iteration meets
FindBlocks(p, ptr) ==
    {p.blockMap[k] : k \in {d \in DOMAIN p.blockMap :
                              ptr >= d /\ ptr < d + p.blocks[p.blockMap[d]].size}}

BlockChoices(p, ptr) == IF FindBlocks(p, ptr) = {} THEN {NoBlock} ELSE FindBlocks(p, ptr)

Owns(p, ptr) == FindBlocks(p, ptr) # {}

\* deallocate without the `!block->used` return
PoolDeallocateOfFreeBlock(p, trk, ptr, block) ==
    IF ptr = NullPtr THEN [pool |-> p, trk |-> trk]
    ELSE IF block = NoBlock THEN [pool |-> p, trk |-> trk]
    ELSE
        LET size == p.blocks[block].size
            p1 == [p EXCEPT !.stats = StatsFree(@, size),
                            !.blocks[block].used = FALSE]
        IN [pool |-> MergeAdjacentBlocks(p1, block),
            trk |-> IF p.config.enableTracking THEN TrackDeallocation(trk, ptr) ELSE trk]

\* deallocate without `block->used = false` and the merge
PoolDeallocateKeepingUsed(p, trk, ptr, block) ==
    IF ptr = NullPtr THEN [pool |-> p, trk |-> trk]
    ELSE IF block = NoBlock \/ ~p.blocks[block].used THEN [pool |-> p, trk |-> trk]
    ELSE [pool |-> [p EXCEPT !.stats = StatsFree(@, p.blocks[block].size)],
          trk |-> IF p.config.enableTracking THEN TrackDeallocation(trk, ptr) ELSE trk]

\* deallocate with `stats.deallocationCount++` ahead of the `!block || !block->used` return
PoolDeallocateCountingFirst(p, trk, ptr, block) ==
    IF ptr = NullPtr THEN [pool |-> p, trk |-> trk]
    ELSE IF block = NoBlock \/ ~p.blocks[block].used
    THEN [pool |-> [p EXCEPT !.stats.deallocationCount = WAdd(@, 1)], trk |-> trk]
    ELSE
        LET size == p.blocks[block].size
            p1 == [p EXCEPT !.stats = StatsFree(@, size),
                            !.blocks[block].used = FALSE]
        IN [pool |-> MergeAdjacentBlocks(p1, block),
            trk |-> IF p.config.enableTracking THEN TrackDeallocation(trk, ptr) ELSE trk]

\* deallocate that acts only on the address the block starts at
PoolDeallocateExactStart(p, trk, ptr, block) ==
    IF ptr = NullPtr THEN [pool |-> p, trk |-> trk]
    ELSE IF block = NoBlock \/ ~p.blocks[block].used THEN [pool |-> p, trk |-> trk]
    ELSE IF ptr # p.blocks[block].data THEN [pool |-> p, trk |-> trk]
    ELSE
        LET size == p.blocks[block].size
            p1 == [p EXCEPT !.stats = StatsFree(@, size),
                            !.blocks[block].used = FALSE]
        IN [pool |-> MergeAdjacentBlocks(p1, block),
            trk |-> IF p.config.enableTracking THEN TrackDeallocation(trk, ptr) ELSE trk]

\* block is the one the lookup loop found (NoBlock: none)
PoolDeallocate(p, trk, ptr, block) ==
    IF ptr = NullPtr THEN [pool |-> p, trk |-> trk]
    ELSE IF block = NoBlock \/ ~p.blocks[block].used THEN [pool |-> p, trk |-> trk]
    ELSE
        LET size == p.blocks[block].size
            p1 == [p EXCEPT !.stats = StatsFree(@, size),
                            !.blocks[block].used = FALSE]
        IN [pool |-> MergeAdjacentBlocks(p1, block),
            trk |-> IF p.config.enableTracking THEN TrackDeallocation(trk, ptr) ELSE trk]

\* reallocate that returns ptr only when newSize is below the block's size
PoolReallocateStrict(p, ptr, newSize, block) ==
    IF block = NoBlock THEN [pool |-> p, result |-> NullPtr, returned |-> TRUE]
    ELSE IF newSize < p.blocks[block].size
    THEN [pool |-> p, result |-> ptr, returned |-> TRUE]
    ELSE [pool |-> p, result |-> NullPtr, returned |-> FALSE]

\* reallocate(ptr, newSize), ptr not null and newSize not 0, from the lock_guard to
\* the call of allocate(newSize): `returned` tells whether it returned before it
\* (block is the one the lookup loop found)
PoolReallocate(p, ptr, newSize, block) ==
    IF block = NoBlock THEN [pool |-> p, result |-> NullPtr, returned |-> TRUE]
    ELSE IF newSize <= p.blocks[block].size
    THEN [pool |-> p, result |-> ptr, returned |-> TRUE]
    ELSE [pool |-> p, result |-> NullPtr, returned |-> FALSE]

\* one visit of defragment's loop, at the map entry with key k
DefragVisit(p, k) ==
    IF k \notin DOMAIN p.blockMap THEN p
    ELSE IF p.blocks[p.blockMap[k]].used THEN p
    ELSE MergeAdjacentBlocks(p, p.blockMap[k])

\* The pools defragment may leave: the loop walks blockMap in the unordered_map's
\* order, any order of the keys in todo.  A visit that erases the entry the
\* iterator stands on (a merge into prev) leaves the iterator dangling: the walk
\* then ends there or goes on.
RECURSIVE DefragResults(_, _)
DefragResults(p, todo) ==
    IF todo = {} \/ \A k \in todo : DefragVisit(p, k) = p THEN {p}
    ELSE UNION {
        LET q == DefragVisit(p, k) IN
        IF k \in DOMAIN p.blockMap /\ k \notin DOMAIN q.blockMap
        THEN {q} \cup DefragResults(q, todo \ {k})
        ELSE DefragResults(q, todo \ {k}) : k \in todo}

----------------------------------------------------------------------------
\* StackAllocator: memory (the arena std::malloc gave), totalSize, currentOffset, stats.

NewStack(memory, size) ==
    [memory |-> memory, totalSize |-> size, currentOffset |-> 0, stats |-> ZeroStats]

StackAllocate(st, size, alignment) ==
    LET alignedOffset == AlignUp(WAdd(st.memory, st.currentOffset), alignment)
        padding == WSub(alignedOffset, WAdd(st.memory, st.currentOffset))
    IN
    IF size = 0 THEN [stack |-> st, result |-> NullPtr]
    ELSE IF WAdd(WAdd(st.currentOffset, padding), size) > st.totalSize
    THEN [stack |-> st, result |-> NullPtr]
    ELSE [stack |-> [st EXCEPT !.currentOffset = WAdd(@, WAdd(padding, size)),
                               !.stats = StatsAlloc(@, size)],
          result |-> alignedOffset]

\* no stack allocator constructed
NoStack == NewStack(NullPtr, 0)

\* StackAllocator::reset
StackReset(st) == [st EXCEPT !.currentOffset = 0, !.stats = ZeroStats]

\* StackAllocator::getMarker
GetMarker(st) == st.memory + st.currentOffset

\* freeToMarker that takes the arena's base for an invalid marker
FreeToMarkerRejectingBase(st, marker) ==
    IF marker <= st.memory \/ marker > st.memory + st.totalSize THEN st
    ELSE LET newOffset == WSub(marker, st.memory) IN
         IF newOffset <= st.currentOffset THEN [st EXCEPT !.currentOffset = newOffset]
         ELSE st

\* freeToMarker without the `newOffset <= currentOffset` test
FreeToMarkerAdvancing(st, marker) ==
    IF marker < st.memory \/ marker > st.memory + st.totalSize THEN st
    ELSE [st EXCEPT !.currentOffset = WSub(marker, st.memory)]

\* StackAllocator::freeToMarker
FreeToMarker(st, marker) ==
    IF marker < st.memory \/ marker > st.memory + st.totalSize THEN st
    ELSE LET newOffset == WSub(marker, st.memory) IN
         IF newOffset <= st.currentOffset THEN [st EXCEPT !.currentOffset = newOffset]
         ELSE st

\* a deallocate that pops: the offset goes back to ptr when ptr is in the arena
StackDeallocatePopping(st, ptr) ==
    IF ptr >= st.memory /\ ptr < st.memory + st.currentOffset
    THEN [st EXCEPT !.currentOffset = WSub(ptr, st.memory)] ELSE st

\* StackAllocator::deallocate
StackDeallocate(st, ptr) == st

\* StackAllocator::reallocate
StackReallocate(st, ptr, newSize) == [stack |-> st, result |-> NullPtr]

StackOwns(st, ptr) == ptr >= st.memory /\ ptr < st.memory + st.totalSize

----------------------------------------------------------------------------
\* The platform heap: std::malloc, std::aligned_alloc, std::realloc, std::free.

HeapBases(ranges, size, alignment) ==
    {b \in 1..AddrLimit :
        /\ b % alignment = 0
        /\ b + Max(size, 1) <= AddrLimit
        /\ Clear(ranges, b, Max(size, 1))}

\* what the heap may answer when `ranges` are taken: null, or a free range at a
\* multiple of the alignment (an alignment that is no power of two is refused)
HeapAnswers(ranges, size, alignment) ==
    {NullPtr} \cup
    IF IsPowerOfTwo(alignment)
    THEN Lowest(HeapBases(ranges, size, alignment))
    ELSE {}

\* std::aligned_alloc(alignment, size); std::malloc(size) is the case alignment 1
HeapChoices(size, alignment) == HeapAnswers(mapped \cup heap, size, alignment)

\* std::realloc(ptr, newSize) of a block the heap handed out: null, or the block
\* resized in place or moved
ReallocChoices(ptr, newSize) ==
    HeapAnswers(mapped \cup {r \in heap : r.base # ptr}, newSize, 1)

HeapBlock(ptr, size) == [base |-> ptr, size |-> Max(size, 1)]

HeapHas(h, ptr) == \E r \in h : r.base = ptr

HeapFree(h, ptr) == {r \in h : r.base # ptr}

----------------------------------------------------------------------------
\* MemoryManager: initialized, defaultPool (the unique_ptr: empty or one pool),
\* pools, stackAllocators, and the thread that holds its mutex (lockedBy).  The tracker it refers to is the singleton `tracker`.

NewManager ==
    [initialized |-> FALSE, defaultPool |-> <<>>, pools |-> <<>>, stackAllocators |-> <<>>,
     lockedBy |-> NoThread]

\* the caller's tag, file and line (VF_ALLOCATE passes __FILE__ and __LINE__)
CallSites == {[tag |-> "t1", file |-> "main.cpp", line |-> 17]}

NoSite == [tag |-> "", file |-> "", line |-> 0]

\* the aligned_alloc fallback of MemoryManager::allocate; hp is the heap's answer
MgrPlatformAllocate(trk, size, alignment, site, hp, tracked) ==
    [trk |-> IF tracked /\ hp # NullPtr /\ trk.trackingEnabled
             THEN TrackAllocation(trk, hp, size, alignment, site.tag, site.file, site.line)
             ELSE trk,
     result |-> hp]

\* an allocate that goes to the platform without asking the default pool
MgrAllocateFromPlatform(m, trk, size, alignment, site, base, hp) ==
    [mgr |-> m, by |-> "platform"]
        @@ MgrPlatformAllocate(trk, size, alignment, site, hp, m.initialized)

\* MemoryManager::allocate; base and hp are what the OS and the heap answer when asked.
\* The result names the allocator that served the request.
MgrAllocate(m, trk, size, alignment, site, base, hp) ==
    IF ~m.initialized
    THEN [mgr |-> m, by |-> "platform"]
            @@ MgrPlatformAllocate(trk, size, alignment, site, hp, FALSE)
    ELSE
        LET r == PoolAllocate(m.defaultPool[1], trk, size, alignment, base) IN
        IF m.defaultPool # <<>> /\ r.result # NullPtr
        THEN [mgr |-> [m EXCEPT !.defaultPool = <<r.pool>>],
              trk |-> IF r.trk.trackingEnabled
                      THEN TrackAllocation(r.trk, r.result, size, alignment,
                                           site.tag, site.file, site.line)
                      ELSE r.trk,
              result |-> r.result, by |-> "default"]
        ELSE [mgr |-> IF m.defaultPool # <<>>
                      THEN [m EXCEPT !.defaultPool = <<r.pool>>] ELSE m,
              by |-> "platform"]
                @@ MgrPlatformAllocate(IF m.defaultPool # <<>> THEN r.trk ELSE trk,
                                       size, alignment, site, hp, TRUE)

\* the probe of deallocate without the loop over the stack allocators
DeallocateRouteSkippingStacks(m, ptr) ==
    IF m.defaultPool # <<>> /\ Owns(m.defaultPool[1], ptr) THEN [to |-> "default", i |-> 1]
    ELSE IF \E i \in 1..Len(m.pools) : Owns(m.pools[i], ptr)
    THEN [to |-> "pool", i |-> MinOf({i \in 1..Len(m.pools) : Owns(m.pools[i], ptr)})]
    ELSE [to |-> "platform", i |-> 0]

\* the allocator MemoryManager::deallocate hands ptr to: the first that claims it
\* in the order default pool, pools, stack allocators; else the platform
DeallocateRoute(m, ptr) ==
    IF m.defaultPool # <<>> /\ Owns(m.defaultPool[1], ptr) THEN [to |-> "default", i |-> 1]
    ELSE IF \E i \in 1..Len(m.pools) : Owns(m.pools[i], ptr)
    THEN [to |-> "pool", i |-> MinOf({i \in 1..Len(m.pools) : Owns(m.pools[i], ptr)})]
    ELSE IF \E i \in 1..Len(m.stackAllocators) : StackOwns(m.stackAllocators[i], ptr)
    THEN [to |-> "stack",
          i |-> MinOf({i \in 1..Len(m.stackAllocators) :
                          StackOwns(m.stackAllocators[i], ptr)})]
    ELSE [to |-> "platform", i |-> 0]

\* the allocator MemoryManager::reallocate hands ptr to: default pool, pools, else
\* the platform
ReallocateRoute(m, ptr) ==
    IF m.defaultPool # <<>> /\ Owns(m.defaultPool[1], ptr) THEN [to |-> "default", i |-> 1]
    ELSE IF \E i \in 1..Len(m.pools) : Owns(m.pools[i], ptr)
    THEN [to |-> "pool", i |-> MinOf({i \in 1..Len(m.pools) : Owns(m.pools[i], ptr)})]
    ELSE [to |-> "platform", i |-> 0]

\* the pool a route names
RoutedPool(m, route) == IF route.to = "default" THEN m.defaultPool[1] ELSE m.pools[route.i]

SetRoutedPool(m, route, p) ==
    IF route.to = "default" THEN [m EXCEPT !.defaultPool = <<p>>]
    ELSE [m EXCEPT !.pools[route.i] = p]

\* createStackAllocator whose lock_guard is not released when the constructor throws
MgrCreateStackAllocatorKeepingLock(m, memory, size) ==
    LET held == [m EXCEPT !.lockedBy = Me] IN
    IF memory = NullPtr THEN [mgr |-> held, threw |-> TRUE]
    ELSE [mgr |-> [held EXCEPT !.stackAllocators = Append(@, NewStack(memory, size)),
                               !.lockedBy = NoThread],
          threw |-> FALSE]

\* MemoryManager::createStackAllocator; memory is what std::malloc answers in the
\* constructor, which throws std::bad_alloc on null: the lock_guard is unwound
MgrCreateStackAllocator(m, memory, size) ==
    LET held == [m EXCEPT !.lockedBy = Me] IN
    IF memory = NullPtr THEN [mgr |-> [held EXCEPT !.lockedBy = NoThread], threw |-> TRUE]
    ELSE [mgr |-> [held EXCEPT !.stackAllocators = Append(@, NewStack(memory, size)),
                               !.lockedBy = NoThread],
          threw |-> FALSE]

----------------------------------------------------------------------------
\* The calls on one MemoryPool (SpecPool).

Arenas(p) == {p.pools[i] : i \in 1..Len(p.pools)}

\* pc: "idle" (between calls), "reallocate" (inside reallocate, mutex held, about
\* to call allocate), "threw" (the call is leaving by an exception), "blocked"
\* (waiting for a mutex that will never be released)
At(at) == at

Idle == pc = "idle"

NoSysCall == [fn |-> "none", ptr |-> NullPtr]

NoCall == [fn |-> "none", arg |-> NullPtr]

\* no thread has been started
NoThreads == <<>>

\* the pointers a caller passes: null, one outside the pool, the pointers it was
\* given and the byte after each, and the start of each arena
PtrInputs(p) ==
    {NullPtr, AddrLimit} \cup {l.ptr : l \in live} \cup {l.ptr + 1 : l \in live}
        \cup {a.base : a \in Arenas(p)}

\* history: the allocations that end when `block` of p is released
Released(p, block, allocs) ==
    IF block = NoBlock \/ ~p.blocks[block].used THEN {}
    ELSE {l \in allocs : l.ptr \in Range(p.blocks[block].data, p.blocks[block].size)}

\* history: a call returned ptr for a request of `size`; n tells the calls apart
\* and `by` names the allocator that issued it
Given(allocs, ptr, size, n, by) ==
    IF ptr = NullPtr THEN allocs
    ELSE allocs \cup {[ptr |-> ptr, size |-> size, n |-> n, by |-> by]}

\* history: every step counts the pointers it handed out
IssuedStep == issued' = issued + Cardinality(live' \ live)

InitPool ==
    /\ \E config \in PoolConfigs :
          \E base \in {NullPtr, PageSize} : pool = NewPool(config, base)
    /\ mapped = Arenas(pool)
    /\ heap = {}
    /\ mgr = NewManager
    /\ tracker = NewTracker
    /\ live = {}
    /\ issued = 0
    /\ stack = NoStack
    /\ markers = {}
    /\ called = NoCall
    /\ threads = NoThreads
    /\ pc = At("idle")
    /\ sysCall = NoSysCall

Allocate(size, alignment) ==
    /\ Idle
    /\ pool.stats.allocationCount < MaxAllocs
    /\ \E base \in SysChoices(Max(size, pool.config.blockSize)) :
          LET r == PoolAllocate(pool, tracker, size, alignment, base) IN
          /\ pool' = r.pool
          /\ tracker' = r.trk
          /\ mapped' = Arenas(r.pool)
          /\ live' = Given(live, r.result, size, issued + 1, "pool")
    /\ pc' = At("idle")
    /\ UNCHANGED <<heap, mgr, sysCall>>
    /\ IssuedStep
    /\ UNCHANGED <<stackVars, threadVars>>

Deallocate(ptr) ==
    /\ Idle
    /\ \E block \in BlockChoices(pool, ptr) :
          LET r == PoolDeallocate(pool, tracker, ptr, block) IN
          /\ pool' = r.pool
          /\ tracker' = r.trk
          /\ live' = live \ Released(pool, block, live)
    /\ pc' = At("idle")
    /\ UNCHANGED <<mapped, heap, mgr, sysCall>>
    /\ IssuedStep
    /\ UNCHANGED <<stackVars, threadVars>>

ExpandCall(additionalSize) ==
    /\ Idle
    /\ \E base \in SysChoices(additionalSize) :
          LET e == Expand(pool, additionalSize, base) IN
          /\ pool' = e.pool
          /\ mapped' = Arenas(e.pool)
    /\ pc' = At("idle")
    /\ UNCHANGED <<tracker, heap, mgr, live, sysCall>>
    /\ IssuedStep
    /\ UNCHANGED <<stackVars, threadVars>>

Defragment ==
    /\ Idle
    /\ pool' \in DefragResults(pool, DOMAIN pool.blockMap)
    /\ pc' = At("idle")
    /\ UNCHANGED <<tracker, mapped, heap, mgr, live, sysCall>>
    /\ IssuedStep
    /\ UNCHANGED <<stackVars, threadVars>>

\* reallocate up to the nested allocate call: the two delegating cases, then the
\* lookup under the pool's mutex
Reallocate(ptr, newSize) ==
    /\ Idle
    /\ IF ptr = NullPtr THEN
          /\ pool.stats.allocationCount < MaxAllocs
          /\ \E base \in SysChoices(Max(newSize, pool.config.blockSize)) :
                LET r == PoolAllocate(pool, tracker, newSize, DefaultAlignment, base) IN
                /\ pool' = r.pool
                /\ tracker' = r.trk
                /\ mapped' = Arenas(r.pool)
                /\ live' = Given(live, r.result, newSize, issued + 1, "pool")
          /\ pc' = At("idle")
       ELSE IF newSize = 0 THEN
          /\ \E block \in BlockChoices(pool, ptr) :
                LET r == PoolDeallocate(pool, tracker, ptr, block) IN
                /\ pool' = r.pool
                /\ tracker' = r.trk
                /\ live' = live \ Released(pool, block, live)
          /\ pc' = At("idle")
          /\ UNCHANGED mapped
       ELSE \E block \in BlockChoices(pool, ptr) :
          LET r == PoolReallocate(pool, ptr, newSize, block) IN
          IF r.returned
          THEN /\ pc' = At("idle")
               /\ pool' = r.pool
               /\ UNCHANGED <<tracker, mapped, live>>
          ELSE /\ pool' = [r.pool EXCEPT !.lockedBy = Me]
               /\ pc' = At("reallocate")
               /\ UNCHANGED <<tracker, mapped, live>>
    /\ UNCHANGED <<heap, mgr, sysCall>>
    /\ IssuedStep
    /\ UNCHANGED <<stackVars, threadVars>>

\* What std::lock_guard<std::mutex> does when thread t locks the mutex of p: it is
\* acquired when free; locking a std::mutex the thread already owns is undefined:
\* the build either waits forever (pthread) or throws std::system_error (MSVC).
LockOutcomes(p, t) ==
    IF p.lockedBy = NoThread THEN {"acquired"}
    ELSE IF p.lockedBy = t THEN {"blocked", "threw"}
    ELSE {"blocked"}

\* reallocate line 167: allocate(newSize) locks the mutex reallocate holds.  On an
\* exception reallocate's own lock_guard is unwound.
ReallocateGrow ==
    /\ pc = "reallocate"
    /\ \E o \in LockOutcomes(pool, Me) :
          IF o = "threw"
          THEN /\ pool' = [pool EXCEPT !.lockedBy = NoThread]
               /\ pc' = At("threw")
          ELSE /\ pc' = At("blocked")
               /\ UNCHANGED pool
    /\ UNCHANGED <<tracker, mapped, heap, mgr, live, sysCall>>
    /\ IssuedStep
    /\ UNCHANGED <<stackVars, threadVars>>

\* the exception reaches the caller, which goes on
Catch ==
    /\ pc = "threw"
    /\ pc' = At("idle")
    /\ UNCHANGED <<pool, tracker, mapped, heap, mgr, live, sysCall>>
    /\ IssuedStep
    /\ UNCHANGED <<stackVars, threadVars>>

NextPool ==
    \/ \E size \in Sizes, alignment \in Alignments : Allocate(size, alignment)
    \/ \E ptr \in PtrInputs(pool) : Deallocate(ptr)
    \/ \E additionalSize \in ExpandSizes : ExpandCall(additionalSize)
    \/ Defragment
    \/ \E ptr \in PtrInputs(pool), newSize \in Sizes : Reallocate(ptr, newSize)
    \/ ReallocateGrow
    \/ Catch

SpecPool == InitPool /\ [][NextPool]_vars

----------------------------------------------------------------------------
\* Properties of one MemoryPool, checked under SpecPool.

UsedBlocks(p) == {b \in DOMAIN p.blocks : p.blocks[b].used}

BlockRange(p, b) == Range(p.blocks[b].data, p.blocks[b].size)

\* the block whose range holds ptr counts more bytes than ptr itself
HasPadding(p, ptr) == \E b \in DOMAIN p.blocks : ptr \in BlockRange(p, b) \ {p.blocks[b].data}

\* what a successful allocate(size, alignment) step guarantees of the pointer it returned
ReturnsAlignedOwned(alignment) ==
    \A l \in live' \ live :
        /\ l.ptr # NullPtr
        /\ l.ptr % alignment = 0
        /\ Owns(pool', l.ptr)

ArenaBlocks(p, a) == {b \in DOMAIN p.blocks : p.blocks[b].data \in RangeOf(a)}

Tiles(p, a) ==
    LET B == ArenaBlocks(p, a) IN
    /\ \A b, c \in B : b # c => BlockRange(p, b) \cap BlockRange(p, c) = {}
    /\ UNION {BlockRange(p, b) : b \in B} = RangeOf(a)
    /\ \A b \in B :
          /\ p.blocks[b].size > 0
          /\ IF p.blocks[b].data + p.blocks[b].size = a.base + a.size
             THEN p.blocks[b].next = NoBlock
             ELSE /\ p.blocks[b].next \in B
                  /\ p.blocks[p.blocks[b].next].data = p.blocks[b].data + p.blocks[b].size
                  /\ p.blocks[p.blocks[b].next].prev = b
          /\ (p.blocks[b].data = a.base) = (p.blocks[b].prev = NoBlock)

\* C2: in every state reached by allocate, deallocate, expand and defragment, the
\* blocks of each arena tile it: pairwise disjoint, each followed in the list by
\* the block that starts where it ends, their union the arena's byte range.
C2_BlocksTileArenas == \A a \in Arenas(pool) : Tiles(pool, a)

C2_Witness ==
    /\ Len(pool.pools) >= 2
    /\ pool.stats.deallocationCount >= 1
    /\ \E a \in Arenas(pool) : Cardinality(ArenaBlocks(pool, a)) >= 2
    /\ UsedBlocks(pool) # {}

RECURSIVE SumSizes(_)
SumSizes(S) ==
    IF S = {} THEN 0
    ELSE LET x == CHOOSE y \in S : TRUE IN x.size + SumSizes(S \ {x})

\* C4: currentUsage equals the sum of the requested sizes of the allocations
\* still live (0 once all are deallocated).
C4_UsageIsLiveSum == pool.stats.currentUsage = SumSizes(live)

CountersUnchanged ==
    /\ pool'.stats.allocationCount = pool.stats.allocationCount
    /\ pool'.stats.deallocationCount = pool.stats.deallocationCount

\* C5: allocationCount - deallocationCount equals the number of blocks marked
\* used, in every state; and an allocate that fails, a deallocate of a pointer in
\* a free block (a double free) or in no block of the pool changes neither counter.
C5_CountersMatchUsedBlocks ==
    /\ [](WSub(pool.stats.allocationCount, pool.stats.deallocationCount)
             = Cardinality(UsedBlocks(pool)))
    /\ [][/\ \A size \in Sizes, alignment \in Alignments :
                (Allocate(size, alignment) /\ live' = live) => CountersUnchanged
          /\ \A ptr \in PtrInputs(pool) :
                (Deallocate(ptr) /\ \A b \in FindBlocks(pool, ptr) : ~pool.blocks[b].used)
                    => CountersUnchanged]_vars

C5_Witness ==
    /\ pool.stats.allocationCount = 2
    /\ pool.stats.deallocationCount = 1
    /\ Cardinality(UsedBlocks(pool)) = 1
    /\ Cardinality(DOMAIN pool.blocks) >= 2

\* C6: a reallocate that has to grow always returns: the calling thread is never
\* left waiting for the pool's own mutex, nor thrown out of the call.
C6_ReallocateReturns == pc \notin {"blocked", "threw"}

\* C7: the sizes of the arenas a pool has mapped never add up to more than
\* config.maxSize.
C7_MappedWithinMaxSize == SumSizes(Arenas(pool)) <= pool.config.maxSize

----------------------------------------------------------------------------
\* The calls on the MemoryManager, and on the pools and stack allocators it
\* created (SpecMgr).

\* bounds of SpecMgr: pointers handed out, and the inputs of the calls; each
\* auxiliary pool configuration and each stack size is created once
MaxMgrAllocs == 1
MgrSizes == {3, 12}
MgrAlignments == {4}
StackSizes == {16}
AuxConfigs ==
    {[initialSize |-> 8, maxSize |-> 20, blockSize |-> 4, enableTracking |-> FALSE,
      name |-> "AuxPool"]}

AllPools(m) ==
    {m.defaultPool[i] : i \in 1..Len(m.defaultPool)} \cup {m.pools[i] : i \in 1..Len(m.pools)}

MgrMapped(m) == UNION {Arenas(p) : p \in AllPools(m)}

\* the pointers the caller holds
HeldPtrs == {NullPtr} \cup {l.ptr : l \in live}

InitMgr ==
    /\ pool = EmptyPool(CHOOSE c \in PoolConfigs : c.enableTracking)
    /\ mapped = {}
    /\ heap = {}
    /\ mgr = NewManager
    /\ tracker = NewTracker
    /\ live = {}
    /\ issued = 0
    /\ stack = NoStack
    /\ markers = {}
    /\ called = NoCall
    /\ threads = NoThreads
    /\ pc = At("idle")
    /\ sysCall = NoSysCall

Initialize(config) ==
    /\ Idle
    /\ mgr.lockedBy = NoThread
    /\ IF mgr.initialized THEN UNCHANGED <<mgr, mapped>>
       ELSE \E base \in SysChoices(config.initialSize) :
               /\ mgr' = [mgr EXCEPT !.defaultPool = <<NewPool(config, base)>>,
                                     !.initialized = TRUE]
               /\ mapped' = mapped \cup Arenas(NewPool(config, base))
    /\ sysCall' = NoSysCall
    /\ UNCHANGED <<pool, tracker, heap, live, pc>>
    /\ IssuedStep
    /\ UNCHANGED <<stackVars, threadVars>>

MgrAllocateCall(size, alignment, site) ==
    /\ Idle
    /\ issued < MaxMgrAllocs
    /\ \E base \in SysChoices(Max(size, PageSize)), hp \in HeapChoices(size, alignment) :
          LET r == MgrAllocate(mgr, tracker, size, alignment, site, base, hp) IN
          /\ mgr' = r.mgr
          /\ tracker' = r.trk
          /\ mapped' = mapped \cup MgrMapped(r.mgr)
          /\ heap' = IF r.by = "platform" /\ r.result # NullPtr
                     THEN heap \cup {HeapBlock(r.result, size)} ELSE heap
          /\ live' = Given(live, r.result, size, issued + 1, r.by)
    /\ sysCall' = NoSysCall
    /\ UNCHANGED <<pool, pc>>
    /\ IssuedStep
    /\ UNCHANGED <<stackVars, threadVars>>

\* std::free(ptr): of a block the heap handed out, it returns the block; of any
\* other pointer it is undefined, and sysCall records that it was asked
PlatformFree(ptr) ==
    /\ sysCall' = [fn |-> "free", ptr |-> ptr]
    /\ heap' = HeapFree(heap, ptr)
    /\ live' = IF HeapHas(heap, ptr) THEN {l \in live : l.ptr # ptr} ELSE live
    /\ UNCHANGED <<mgr, tracker>>

\* MemoryManager::deallocate
MgrDeallocateBody(ptr) ==
    IF ptr = NullPtr
    THEN UNCHANGED <<mgr, tracker, heap, live>> /\ sysCall' = NoSysCall
    ELSE IF ~mgr.initialized THEN PlatformFree(ptr)
    ELSE LET route == DeallocateRoute(mgr, ptr) IN
         IF route.to \in {"default", "pool"}
         THEN \E block \in BlockChoices(RoutedPool(mgr, route), ptr) :
                 LET r == PoolDeallocate(RoutedPool(mgr, route), tracker, ptr, block) IN
                 /\ mgr' = SetRoutedPool(mgr, route, r.pool)
                 /\ tracker' = r.trk
                 /\ live' = live \ Released(RoutedPool(mgr, route), block, live)
                 /\ sysCall' = NoSysCall
                 /\ UNCHANGED heap
         ELSE IF route.to = "stack"
         THEN UNCHANGED <<mgr, tracker, heap, live>> /\ sysCall' = NoSysCall
         ELSE PlatformFree(ptr)

MgrDeallocateCall(ptr) ==
    /\ Idle
    /\ MgrDeallocateBody(ptr)
    /\ UNCHANGED <<pool, mapped, pc>>
    /\ IssuedStep
    /\ UNCHANGED <<stackVars, threadVars>>

\* std::realloc(ptr, newSize) and the tracking that follows it in
\* MemoryManager::reallocate; of a pointer the heap did not hand out it is
\* undefined, and sysCall records that it was asked
PlatformRealloc(ptr, newSize, tracked) ==
    /\ sysCall' = [fn |-> "realloc", ptr |-> ptr]
    /\ IF ~HeapHas(heap, ptr) THEN UNCHANGED <<heap, live, tracker>>
       ELSE \E newPtr \in IF issued <= MaxMgrAllocs THEN ReallocChoices(ptr, newSize)
                                                    ELSE {NullPtr} :
               IF newPtr = NullPtr THEN UNCHANGED <<heap, live, tracker>>
               ELSE /\ heap' = HeapFree(heap, ptr) \cup {HeapBlock(newPtr, newSize)}
                    /\ live' = Given({l \in live : l.ptr # ptr}, newPtr, newSize,
                                     issued + 1, "platform")
                    /\ tracker' = IF tracked /\ tracker.trackingEnabled
                                  THEN TrackReallocation(tracker, ptr, newPtr, newSize)
                                  ELSE tracker
    /\ UNCHANGED mgr

\* MemoryManager::reallocate, up to the allocate call inside MemoryPool::reallocate
MgrReallocateCall(ptr, newSize) ==
    /\ Idle
    /\ IF ptr = NullPtr THEN
          /\ issued < MaxMgrAllocs
          /\ \E base \in SysChoices(Max(newSize, PageSize)),
                hp \in HeapChoices(newSize, DefaultAlignment) :
                LET r == MgrAllocate(mgr, tracker, newSize, DefaultAlignment, NoSite,
                                     base, hp) IN
                /\ mgr' = r.mgr
                /\ tracker' = r.trk
                /\ mapped' = mapped \cup MgrMapped(r.mgr)
                /\ heap' = IF r.by = "platform" /\ r.result # NullPtr
                           THEN heap \cup {HeapBlock(r.result, newSize)} ELSE heap
                /\ live' = Given(live, r.result, newSize, issued + 1, r.by)
          /\ sysCall' = NoSysCall
          /\ UNCHANGED pc
       ELSE IF newSize = 0 THEN MgrDeallocateBody(ptr) /\ UNCHANGED <<mapped, pc>>
       ELSE IF ~mgr.initialized
       THEN PlatformRealloc(ptr, newSize, FALSE) /\ UNCHANGED <<mapped, pc>>
       ELSE LET route == ReallocateRoute(mgr, ptr) IN
            IF route.to = "platform"
            THEN PlatformRealloc(ptr, newSize, TRUE) /\ UNCHANGED <<mapped, pc>>
            ELSE \E block \in BlockChoices(RoutedPool(mgr, route), ptr) :
                    /\ sysCall' = NoSysCall
                    /\ UNCHANGED <<mapped, heap>>
                    /\ IF block = NoBlock
                       THEN UNCHANGED <<mgr, tracker, live, pc>>
                       ELSE IF newSize <= RoutedPool(mgr, route).blocks[block].size
                       THEN /\ issued <= MaxMgrAllocs
                            /\ tracker' = IF tracker.trackingEnabled
                                          THEN TrackReallocation(tracker, ptr, ptr, newSize)
                                          ELSE tracker
                            /\ live' = Given({l \in live : l.ptr # ptr}, ptr, newSize,
                                             issued + 1, route.to)
                            /\ UNCHANGED <<mgr, pc>>
                       ELSE /\ mgr' = SetRoutedPool(mgr, route,
                                         [RoutedPool(mgr, route) EXCEPT !.lockedBy = Me])
                            /\ pc' = At("reallocate")
                            /\ UNCHANGED <<tracker, live>>
    /\ UNCHANGED pool
    /\ IssuedStep
    /\ UNCHANGED <<stackVars, threadVars>>

\* the pool whose mutex the caller holds inside reallocate
LockedRoute(m) ==
    IF m.defaultPool # <<>> /\ m.defaultPool[1].lockedBy = Me THEN [to |-> "default", i |-> 1]
    ELSE [to |-> "pool", i |-> MinOf({i \in 1..Len(m.pools) : m.pools[i].lockedBy = Me})]

\* MemoryPool::reallocate line 167, reached through the manager
MgrReallocateGrow ==
    /\ pc = "reallocate"
    /\ \E o \in LockOutcomes(RoutedPool(mgr, LockedRoute(mgr)), Me) :
          IF o = "threw"
          THEN /\ mgr' = SetRoutedPool(mgr, LockedRoute(mgr),
                            [RoutedPool(mgr, LockedRoute(mgr)) EXCEPT !.lockedBy = NoThread])
               /\ pc' = At("threw")
          ELSE /\ pc' = At("blocked")
               /\ UNCHANGED mgr
    /\ UNCHANGED <<pool, tracker, mapped, heap, live, sysCall>>
    /\ IssuedStep
    /\ UNCHANGED <<stackVars, threadVars>>

CreatePool(config) ==
    /\ Idle
    /\ mgr.lockedBy = NoThread
    /\ \A i \in 1..Len(mgr.pools) : mgr.pools[i].config.name # config.name
    /\ \E base \in SysChoices(config.initialSize) :
          /\ mgr' = [mgr EXCEPT !.pools = Append(@, NewPool(config, base))]
          /\ mapped' = mapped \cup Arenas(NewPool(config, base))
    /\ sysCall' = NoSysCall
    /\ UNCHANGED <<pool, tracker, heap, live, pc>>
    /\ IssuedStep
    /\ UNCHANGED <<stackVars, threadVars>>

\* createStackAllocator: the constructor throws std::bad_alloc when malloc fails
CreateStackAllocator(size) ==
    /\ Idle
    /\ mgr.lockedBy = NoThread
    /\ \A i \in 1..Len(mgr.stackAllocators) : mgr.stackAllocators[i].totalSize # size
    /\ \E memory \in HeapChoices(size, 1) :
          LET r == MgrCreateStackAllocator(mgr, memory, size) IN
          /\ mgr' = r.mgr
          /\ pc' = IF r.threw THEN At("threw") ELSE pc
          /\ heap' = IF memory = NullPtr THEN heap ELSE heap \cup {HeapBlock(memory, size)}
    /\ sysCall' = NoSysCall
    /\ UNCHANGED <<pool, tracker, mapped, live>>
    /\ IssuedStep
    /\ UNCHANGED <<stackVars, threadVars>>

\* pool->allocate on a pool createPool returned
AuxAllocate(i, size, alignment) ==
    /\ Idle
    /\ issued < MaxMgrAllocs
    /\ \E base \in SysChoices(Max(size, mgr.pools[i].config.blockSize)) :
          LET r == PoolAllocate(mgr.pools[i], tracker, size, alignment, base) IN
          /\ mgr' = [mgr EXCEPT !.pools[i] = r.pool]
          /\ tracker' = r.trk
          /\ mapped' = mapped \cup Arenas(r.pool)
          /\ live' = Given(live, r.result, size, issued + 1, "pool")
    /\ sysCall' = NoSysCall
    /\ UNCHANGED <<pool, heap, pc>>
    /\ IssuedStep
    /\ UNCHANGED <<stackVars, threadVars>>

\* stack->allocate on a stack allocator createStackAllocator returned
StackAllocateCall(i, size, alignment) ==
    /\ Idle
    /\ issued < MaxMgrAllocs
    /\ LET r == StackAllocate(mgr.stackAllocators[i], size, alignment) IN
          /\ mgr' = [mgr EXCEPT !.stackAllocators[i] = r.stack]
          /\ live' = Given(live, r.result, size, issued + 1, "stack")
    /\ sysCall' = NoSysCall
    /\ UNCHANGED <<pool, tracker, mapped, heap, pc>>
    /\ IssuedStep
    /\ UNCHANGED <<stackVars, threadVars>>

NextMgr ==
    \/ \E config \in PoolConfigs : Initialize(config)
    \/ \E size \in MgrSizes, alignment \in MgrAlignments, site \in CallSites :
          MgrAllocateCall(size, alignment, site)
    \/ \E ptr \in HeldPtrs : MgrDeallocateCall(ptr)
    \/ \E ptr \in HeldPtrs, newSize \in MgrSizes \cup {0} : MgrReallocateCall(ptr, newSize)
    \/ MgrReallocateGrow
    \/ Catch
    \/ \E config \in AuxConfigs : CreatePool(config)
    \/ \E size \in StackSizes : CreateStackAllocator(size)
    \/ \E i \in 1..Len(mgr.pools), size \in MgrSizes, alignment \in MgrAlignments :
          AuxAllocate(i, size, alignment)
    \/ \E i \in 1..Len(mgr.stackAllocators), size \in MgrSizes, alignment \in MgrAlignments :
          StackAllocateCall(i, size, alignment)

SpecMgr == InitMgr /\ [][NextMgr]_vars

----------------------------------------------------------------------------
\* Properties of the MemoryManager facade (SpecMgr).

ClaimedByDefault(m, ptr) == m.defaultPool # <<>> /\ Owns(m.defaultPool[1], ptr)

ClaimedByAux(m, ptr) == \E i \in 1..Len(m.pools) : Owns(m.pools[i], ptr)

ClaimedByStack(m, ptr) ==
    \E i \in 1..Len(m.stackAllocators) : StackOwns(m.stackAllocators[i], ptr)

FirstAux(m, ptr) == MinOf({i \in 1..Len(m.pools) : Owns(m.pools[i], ptr)})

PlatformFreed(ptr) == sysCall' = [fn |-> "free", ptr |-> ptr]

\* what MemoryManager::deallocate(ptr) may do, by the first allocator that claims ptr
DeallocateHandsTo(ptr) ==
    IF ClaimedByDefault(mgr, ptr)
    THEN /\ mgr'.pools = mgr.pools
         /\ mgr'.stackAllocators = mgr.stackAllocators
         /\ heap' = heap
         /\ sysCall'.fn # "free"
    ELSE IF ClaimedByAux(mgr, ptr)
    THEN /\ mgr'.defaultPool = mgr.defaultPool
         /\ \A j \in 1..Len(mgr.pools) : j # FirstAux(mgr, ptr) => mgr'.pools[j] = mgr.pools[j]
         /\ mgr'.stackAllocators = mgr.stackAllocators
         /\ heap' = heap
         /\ sysCall'.fn # "free"
    ELSE IF ClaimedByStack(mgr, ptr)
    THEN /\ mgr' = mgr
         /\ tracker' = tracker
         /\ heap' = heap
         /\ sysCall'.fn # "free"
    ELSE /\ PlatformFreed(ptr)
         /\ mgr' = mgr

\* C8: on an initialized manager, deallocate(ptr) hands ptr to the first allocator
\* that claims it, in the order default pool, auxiliary pools, stack allocators;
\* a pointer a stack allocator claims changes nothing and is not passed to the
\* platform deallocator; only a pointer none claims is passed to free.
C8_DeallocateProbesInOrder ==
    [][\A ptr \in HeldPtrs \ {NullPtr} :
          (mgr.initialized /\ MgrDeallocateCall(ptr)) => DeallocateHandsTo(ptr)]_vars

\* an initialized manager with an auxiliary pool and a stack allocator has passed
\* a pointer none of them claims to free
C8_Witness ==
    /\ mgr.initialized
    /\ Len(mgr.pools) > 0
    /\ Len(mgr.stackAllocators) > 0
    /\ sysCall.fn = "free"
    /\ ~ClaimedByDefault(mgr, sysCall.ptr)
    /\ ~ClaimedByAux(mgr, sysCall.ptr)
    /\ ~ClaimedByStack(mgr, sysCall.ptr)
    /\ ~HeapHas(heap, sysCall.ptr)

\* C9: reallocate(ptr, newSize) probes as deallocate does: a pointer a stack
\* allocator owns is never passed to the platform reallocator.
C9_StackPointerNotToRealloc ==
    ~(mgr.initialized /\ sysCall.fn = "realloc" /\ ClaimedByStack(mgr, sysCall.ptr))

\* the pointers MemoryManager::allocate returned and the tracker has a record of
TrackedByManager ==
    {l.ptr : l \in {m \in live : m.by \in {"default", "platform"}
                                    /\ m.ptr \in DOMAIN tracker.allocations}}

\* C10: the tracker record of a pointer MemoryManager::allocate returned is gone
\* once the pointer has been passed to MemoryManager::deallocate, whether the
\* default pool (tracking on or off) or the platform served it.
C10_DeallocateRemovesRecord ==
    [][\A ptr \in TrackedByManager :
          (mgr.initialized /\ MgrDeallocateCall(ptr)) => ptr \notin DOMAIN tracker'.allocations]_vars

\* the record the tracker keeps of ptr carries the caller's tag, file and line
RecordCarries(trk, ptr, site) ==
    /\ ptr \in DOMAIN trk.allocations
    /\ trk.allocations[ptr].tag = site.tag
    /\ trk.allocations[ptr].file = site.file
    /\ trk.allocations[ptr].line = site.line

\* C11: with tracking enabled, every successful MemoryManager::allocate leaves a
\* tracker record of the returned pointer that carries the caller's tag, file and
\* line, whichever allocator served it and whether or not the manager is
\* initialized.
C11_AllocateLeavesRecord ==
    [][\A size \in MgrSizes, alignment \in MgrAlignments, site \in CallSites :
          (tracker.trackingEnabled /\ MgrAllocateCall(size, alignment, site))
              => \A l \in live' \ live : RecordCarries(tracker', l.ptr, site)]_vars

\* getActiveAllocations(): the pointers the tracker has a record of
ActiveAllocations(trk) == DOMAIN trk.allocations

\* the pointers the caller holds that the default pool served
ServedByDefault == {l.ptr : l \in {m \in live : m.by = "default"}}

\* C12: with tracking enabled and requests served by the default pool, each
\* tagged MemoryManager::allocate adds the returned pointer to the active
\* allocations under the caller's tag, and each MemoryManager::deallocate of such
\* a pointer takes exactly that pointer out: after k allocations and j
\* deallocations the active allocations are the k - j pointers still held.
C12_ActiveAllocationsAreTheLiveOnes ==
    [][/\ \A size \in MgrSizes, alignment \in MgrAlignments, site \in CallSites :
             (tracker.trackingEnabled /\ mgr.initialized
                  /\ MgrAllocateCall(size, alignment, site))
                 => \A l \in live' \ live :
                       l.by = "default"
                           => /\ ActiveAllocations(tracker')
                                    = ActiveAllocations(tracker) \cup {l.ptr}
                              /\ RecordCarries(tracker', l.ptr, site)
       /\ \A ptr \in ServedByDefault :
             (tracker.trackingEnabled /\ mgr.initialized /\ MgrDeallocateCall(ptr))
                 => ActiveAllocations(tracker') = ActiveAllocations(tracker) \ {ptr}]_vars

----------------------------------------------------------------------------
\* The calls on one StackAllocator (SpecStack).

\* bounds of SpecStack: allocate calls that succeed, markers the caller holds
MaxStackAllocs == 2
MaxMarkers == 1
StackRequests == {0, 3, 5}
StackAlignments == {1, 4}

\* where malloc may put the arena: the lowest address, or the lowest aligned one
StackBases(size) == UNION {HeapAnswers({}, size, a) : a \in {1, DefaultAlignment}} \ {NullPtr}

\* the marker arguments tried: null, and every address from one below the arena
\* to one past its end
MarkerInputs(st) == {NullPtr} \cup ((st.memory - 1) .. (st.memory + st.totalSize + 1))

Called(fn, arg) == [fn |-> fn, arg |-> arg]

\* the state after `StackAllocator stack(size)` has returned
InitStack ==
    /\ \E size \in StackSizes : \E memory \in StackBases(size) :
          /\ stack = NewStack(memory, size)
          /\ heap = {HeapBlock(memory, size)}
    /\ markers = {}
    /\ called = NoCall
    /\ pool = EmptyPool(CHOOSE c \in PoolConfigs : c.enableTracking)
    /\ mapped = {}
    /\ mgr = NewManager
    /\ tracker = NewTracker
    /\ live = {}
    /\ issued = 0
    /\ pc = At("idle")
    /\ sysCall = NoSysCall
    /\ threads = NoThreads

StackFrame == UNCHANGED <<pool, tracker, mapped, heap, mgr, live, issued, pc, sysCall, threadVars>>

SAllocate(size, alignment) ==
    /\ stack.stats.allocationCount < MaxStackAllocs
    /\ LET r == StackAllocate(stack, size, alignment) IN
          /\ stack' = r.stack
          /\ called' = Called("allocate", r.result)
    /\ UNCHANGED markers
    /\ StackFrame

SDeallocate(ptr) ==
    /\ stack' = StackDeallocate(stack, ptr)
    /\ called' = Called("deallocate", ptr)
    /\ UNCHANGED markers
    /\ StackFrame

SReallocate(ptr, newSize) ==
    /\ stack' = StackReallocate(stack, ptr, newSize).stack
    /\ called' = Called("reallocate", StackReallocate(stack, ptr, newSize).result)
    /\ UNCHANGED markers
    /\ StackFrame

SReset ==
    /\ stack' = StackReset(stack)
    /\ called' = Called("reset", NullPtr)
    /\ markers' = {}
    /\ StackFrame

SGetMarker ==
    /\ Cardinality(markers) < MaxMarkers
    /\ markers' = markers \cup {[marker |-> GetMarker(stack), offset |-> stack.currentOffset]}
    /\ called' = Called("getMarker", GetMarker(stack))
    /\ UNCHANGED stack
    /\ StackFrame

\* the markers taken at an offset the allocator has since gone below are dropped
SFreeToMarker(marker) ==
    /\ stack' = FreeToMarker(stack, marker)
    /\ called' = Called("freeToMarker", marker)
    /\ markers' = {m \in markers : m.offset <= stack'.currentOffset}
    /\ StackFrame

\* the pointers passed to deallocate and reallocate: null, and what allocate last returned
StackPtrInputs == {NullPtr} \cup (IF called.fn = "allocate" THEN {called.arg} ELSE {})

NextStack ==
    \/ \E size \in StackRequests, alignment \in StackAlignments : SAllocate(size, alignment)
    \/ \E ptr \in StackPtrInputs : SDeallocate(ptr)
    \/ \E ptr \in StackPtrInputs, newSize \in StackRequests : SReallocate(ptr, newSize)
    \/ SReset
    \/ SGetMarker
    \/ \E marker \in MarkerInputs(stack) : SFreeToMarker(marker)

SpecStack == InitStack /\ [][NextStack]_vars

----------------------------------------------------------------------------
\* Properties of the StackAllocator (SpecStack).

NotBehind(st, marker) ==
    \/ marker < st.memory
    \/ marker > st.memory + st.totalSize
    \/ marker >= st.memory + st.currentOffset

\* C14: freeToMarker never increases the offset: with a marker at or ahead of the
\* current offset, or outside the arena, it leaves the offset and the statistics
\* as they were.
C14_FreeToMarkerNeverAdvances ==
    [][\A marker \in MarkerInputs(stack) :
          SFreeToMarker(marker)
              => /\ stack'.currentOffset <= stack.currentOffset
                 /\ NotBehind(stack, marker)
                        => /\ stack'.currentOffset = stack.currentOffset
                           /\ stack'.stats = stack.stats]_vars

\* freeToMarker was called with a marker inside the arena ahead of the offset, and
\* the offset, above 0, is where the allocations left it
C14_Witness ==
    /\ called.fn = "freeToMarker"
    /\ called.arg > stack.memory + stack.currentOffset
    /\ called.arg <= stack.memory + stack.totalSize
    /\ stack.currentOffset > 0
    /\ stack.stats.allocationCount = MaxStackAllocs

----------------------------------------------------------------------------
\* Threads calling into one MemoryPool (SpecThreads).  A call that takes the
\* pool's mutex waits until it is free; allocate is cut where it has chosen its
\* block and where it marks it used, so that two calls inside it at once would
\* show.  expand(additionalSize) called directly takes no mutex.

Threads == {"t1", "t2"}

\* bounds of SpecThreads: allocate calls made, and the inputs of the calls
MaxThreadAllocs == 2
ThreadSizes == {3, 12}
ThreadAlignments == {1, 4}
ThreadExpandSizes == {4}

\* pc: "idle", "wait" (blocked on the mutex), "find" and "commit" (inside
\* allocate), "expand" (inside a direct expand)
IdleThread ==
    [pc |-> "idle", op |-> "none", size |-> 0, alignment |-> 0, block |-> NoBlock,
     result |-> NullPtr, overlapped |-> FALSE, raced |-> FALSE]

\* the thread is reading or writing pools, freeBlocks, blockMap or the blocks
Accessing(th) == th.pc \in {"find", "commit", "expand"}

\* history: a direct expand was inside the pool's structures together with another
\* call, which no mutex orders
MarkRaces(ths) ==
    IF \E t, u \in DOMAIN ths :
          t # u /\ ths[t].pc = "expand" /\ Accessing(ths[u])
    THEN [t \in DOMAIN ths |-> [ths[t] EXCEPT !.raced = TRUE]]
    ELSE ths

\* a lock_guard that never waits
LockAlwaysFree(p) == TRUE

\* std::lock_guard<std::mutex> lock(mutex) can be passed
LockFree(p) == p.lockedBy = NoThread

InitThreads ==
    /\ \E config \in PoolConfigs :
          pool = NewPool(config, PageSize)
    /\ mapped = Arenas(pool)
    /\ threads = [t \in Threads |-> IdleThread]
    /\ heap = {}
    /\ mgr = NewManager
    /\ tracker = NewTracker
    /\ live = {}
    /\ issued = 0
    /\ pc = At("idle")
    /\ sysCall = NoSysCall
    /\ stack = NoStack
    /\ markers = {}
    /\ called = NoCall

ThreadFrame == UNCHANGED <<heap, mgr, pc, sysCall, stackVars>>

\* allocate calls made and not yet returned
InFlight == Cardinality({u \in Threads : threads[u].op = "allocate" /\ threads[u].pc # "idle"})

\* thread t calls pool.allocate(size, alignment) and reaches the lock_guard
TCallAllocate(t, size, alignment) ==
    /\ threads[t].pc = "idle"
    /\ issued + InFlight < MaxThreadAllocs
    /\ threads' = [threads EXCEPT ![t] = [IdleThread EXCEPT
                      !.pc = "wait", !.op = "allocate", !.size = size,
                      !.alignment = alignment, !.raced = threads[t].raced]]
    /\ UNCHANGED <<pool, tracker, mapped, live, issued>>
    /\ ThreadFrame

\* the lock_guard of thread t gets the mutex; the calls waiting for it overlap
\* with this one
TLock(t) ==
    /\ threads[t].pc = "wait"
    /\ LockFree(pool)
    /\ pool' = [pool EXCEPT !.lockedBy = t]
    /\ threads' = MarkRaces(
          [u \in Threads |->
              IF u = t
              THEN [threads[t] EXCEPT
                      !.pc = "find",
                      !.overlapped = @ \/ \E w \in Threads \ {t} : threads[w].pc = "wait"]
              ELSE IF threads[u].pc = "wait" THEN [threads[u] EXCEPT !.overlapped = TRUE]
              ELSE threads[u]])
    /\ UNCHANGED <<tracker, mapped, live, issued>>
    /\ ThreadFrame

\* allocate of thread t, lines 62 to 73: it finds its block, expanding if it must,
\* or returns nullptr
TFind(t) ==
    /\ threads[t].pc = "find"
    /\ \E base \in SysChoices(Max(threads[t].size, pool.config.blockSize)) :
          LET r == PoolFind(pool, threads[t].size, threads[t].alignment, base) IN
          /\ mapped' = Arenas(r.pool)
          /\ IF r.block = NoBlock
             THEN /\ pool' = [r.pool EXCEPT !.lockedBy = NoThread]
                  /\ threads' = [threads EXCEPT ![t].pc = "idle", ![t].size = 0,
                                                ![t].alignment = 0]
             ELSE /\ pool' = r.pool
                  /\ threads' = [threads EXCEPT ![t].pc = "commit", ![t].block = r.block]
    /\ UNCHANGED <<tracker, live, issued>>
    /\ ThreadFrame

\* allocate of thread t, from the aligned address to the return
TCommit(t) ==
    /\ threads[t].pc = "commit"
    /\ LET r == AllocateFrom(pool, tracker, threads[t].block, threads[t].size,
                             threads[t].alignment) IN
          /\ pool' = [r.pool EXCEPT !.lockedBy = NoThread]
          /\ tracker' = r.trk
          /\ live' = Given(live, r.result, threads[t].size, issued + 1, t)
          /\ threads' = [threads EXCEPT ![t].pc = "idle", ![t].result = r.result,
                                        ![t].block = NoBlock, ![t].alignment = 0]
    /\ IssuedStep
    /\ UNCHANGED mapped
    /\ ThreadFrame

\* thread t calls pool.expand(additionalSize) and starts on pools: no lock_guard
TExpandBegin(t, additionalSize) ==
    /\ threads[t].pc = "idle"
    /\ threads' = MarkRaces([threads EXCEPT ![t] = [IdleThread EXCEPT
                      !.pc = "expand", !.op = "expand", !.size = additionalSize,
                      !.raced = threads[t].raced]])
    /\ UNCHANGED <<pool, tracker, mapped, live, issued>>
    /\ ThreadFrame

\* the direct expand of thread t has gone through pools, freeBlocks and blockMap
TExpandEnd(t) ==
    /\ threads[t].pc = "expand"
    /\ \E base \in SysChoices(threads[t].size) :
          /\ pool' = Expand(pool, threads[t].size, base).pool
          /\ mapped' = Arenas(pool')
    /\ threads' = [threads EXCEPT ![t].pc = "idle", ![t].size = 0]
    /\ UNCHANGED <<tracker, live, issued>>
    /\ ThreadFrame

NextThreads ==
    \/ \E t \in Threads, size \in ThreadSizes, alignment \in ThreadAlignments :
          TCallAllocate(t, size, alignment)
    \/ \E t \in Threads : TLock(t)
    \/ \E t \in Threads : TFind(t)
    \/ \E t \in Threads : TCommit(t)
    \/ \E t \in Threads, additionalSize \in ThreadExpandSizes : TExpandBegin(t, additionalSize)
    \/ \E t \in Threads : TExpandEnd(t)

SpecThreads == InitThreads /\ [][NextThreads]_vars

----------------------------------------------------------------------------
\* Claims about threads on one pool

\* C15 as claimed: every public operation on pools, freeBlocks and blockMap holds
\* the pool's mutex for the whole access, expand called directly included, so two
\* threads are never inside these structures together.
C15_AccessesHoldTheMutex ==
    /\ \A t \in Threads : Accessing(threads[t]) => pool.lockedBy = t
    /\ \A t, u \in Threads : t # u => ~(Accessing(threads[t]) /\ Accessing(threads[u]))

Raced == \E t \in Threads : threads[t].raced

\* C16: two allocate calls of two threads on one pool that overlap in time take
\* effect one after the other: the pointers handed out lie in different used
\* blocks with disjoint ranges, allocationCount counts each of them and
\* currentUsage is the sum of their sizes (no direct expand having raced).
C16_ConcurrentAllocatesSerialize ==
    ~Raced =>
        /\ \A l, m \in live :
              l # m => /\ Range(l.ptr, l.size) \cap Range(m.ptr, m.size) = {}
                       /\ FindBlocks(pool, l.ptr) \cap FindBlocks(pool, m.ptr) = {}
        /\ \A l \in live : /\ FindBlocks(pool, l.ptr) # {}
                           /\ FindBlocks(pool, l.ptr) \subseteq UsedBlocks(pool)
        /\ pool.stats.allocationCount = Cardinality(live)
        /\ pool.stats.allocationCount = issued
        /\ pool.stats.currentUsage = SumSizes(live)

C16_Witness ==
    /\ ~Raced
    /\ \A t \in Threads : /\ threads[t].pc = "idle"
                          /\ threads[t].op = "allocate"
                          /\ threads[t].overlapped
                          /\ threads[t].result # NullPtr
    /\ pool.stats.allocationCount = 2

----------------------------------------------------------------------------
\* Threads calling MemoryManager::deallocate and reallocate (SpecProbe), cut at
\* every lock_guard taken and released while the allocators are probed.  A mutex
\* is named by the allocator it belongs to, [to |-> "default" | "pool" | "stack",
\* i |-> index]; threads[t].holds are the mutexes the lock_guards of t hold.

\* the manager after initialize, createPool, createStackAllocator, one allocation
\* from each allocator and one from the platform (and enableTracking(false) on the
\* tracker, whose counters would otherwise grow with every reallocate)
ProbeSetup ==
    LET off == CHOOSE c \in PoolConfigs : ~c.enableTracking
        aux == CHOOSE c \in AuxConfigs : TRUE
        d == PoolAllocate(NewPool(off, PageSize), NewTracker, 3, 4, NullPtr)
        a == PoolAllocate(NewPool(aux, 2 * PageSize), NewTracker, 3, 4, NullPtr)
        s == StackAllocate(NewStack(3 * PageSize, 16), 3, 4)
        h == 5 * PageSize
    IN [mgr |-> [initialized |-> TRUE, defaultPool |-> <<d.pool>>, pools |-> <<a.pool>>,
                 stackAllocators |-> <<s.stack>>, lockedBy |-> NoThread],
        heap |-> {HeapBlock(3 * PageSize, 16), HeapBlock(h, 3)},
        live |-> {[ptr |-> d.result, size |-> 3, n |-> 1, by |-> "default"],
                  [ptr |-> a.result, size |-> 3, n |-> 2, by |-> "pool"],
                  [ptr |-> s.result, size |-> 3, n |-> 3, by |-> "stack"],
                  [ptr |-> h, size |-> 3, n |-> 4, by |-> "platform"]}]

\* pc: "idle", "probe" (about to ask allocator k), "owns" (inside a pool's owns),
\* "claimed" (owns answered true), "inside" (inside the pool's deallocate or
\* reallocate), "blocked" (reallocate waits for the mutex it holds), "stack"
\* (inside a stack allocator's allocate)
IdleProber ==
    [pc |-> "idle", op |-> "none", ptr |-> NullPtr, newSize |-> 0, k |-> 0, holds |-> {}]

\* the allocators in the order deallocate asks them; reallocate asks no stack
ProbeOrder(m, op) ==
    [i \in 1..Len(m.defaultPool) |-> [to |-> "default", i |-> 1]]
    \o [i \in 1..Len(m.pools) |-> [to |-> "pool", i |-> i]]
    \o IF op = "deallocate"
       THEN [i \in 1..Len(m.stackAllocators) |-> [to |-> "stack", i |-> i]]
       ELSE <<>>

MutexFree(a) == \A u \in Threads : a \notin threads[u].holds

\* a lock_guard that is not released at the end of its scope
UnlockNever(holds, a) == holds

\* the lock_guard on the mutex of allocator a leaves its scope
Unlock(holds, a) == holds \ {a}

InitProbe ==
    /\ mgr = ProbeSetup.mgr
    /\ heap = ProbeSetup.heap
    /\ live = ProbeSetup.live
    /\ issued = Cardinality(live)
    /\ mapped = MgrMapped(mgr)
    /\ threads = [t \in Threads |-> IdleProber]
    /\ pool = EmptyPool(CHOOSE c \in PoolConfigs : c.enableTracking)
    /\ tracker = [NewTracker EXCEPT !.trackingEnabled = FALSE]
    /\ pc = At("idle")
    /\ sysCall = NoSysCall
    /\ stack = NoStack
    /\ markers = {}
    /\ called = NoCall

\* thread t calls deallocate(ptr) or reallocate(ptr, newSize) of the manager with
\* a pointer that is not null; reallocate(ptr, 0) is deallocate(ptr)
PCall(t, op, ptr, newSize) ==
    /\ threads[t].pc = "idle"
    /\ threads' = [threads EXCEPT ![t] =
          [IdleProber EXCEPT !.pc = "probe",
                             !.op = IF op = "reallocate" /\ newSize # 0
                                    THEN "reallocate" ELSE "deallocate",
                             !.ptr = ptr,
                             !.newSize = IF op = "reallocate" THEN newSize ELSE 0,
                             !.k = 1]]
    /\ UNCHANGED <<mgr, tracker, heap, live, sysCall>>
    /\ IssuedStep
    /\ UNCHANGED <<pool, mapped, pc, stackVars>>

\* thread t asks allocator k: a pool's owns takes the pool's mutex, a stack
\* allocator's owns takes none; past the last allocator the platform is called
PProbe(t) ==
    LET th == threads[t]
        order == ProbeOrder(mgr, th.op)
    IN
    /\ th.pc = "probe"
    /\ IF th.k > Len(order)
       THEN /\ IF th.op = "deallocate" THEN PlatformFree(th.ptr)
               ELSE PlatformRealloc(th.ptr, th.newSize, TRUE)
            /\ threads' = [threads EXCEPT ![t] = IdleProber]
       ELSE /\ IF order[th.k].to = "stack"
               THEN threads' = [threads EXCEPT ![t] =
                        IF StackOwns(mgr.stackAllocators[order[th.k].i], th.ptr)
                        THEN IdleProber ELSE [th EXCEPT !.k = th.k + 1]]
               ELSE /\ MutexFree(order[th.k])
                    /\ threads' = [threads EXCEPT ![t].pc = "owns",
                                                  ![t].holds = @ \cup {order[th.k]}]
            /\ UNCHANGED <<mgr, tracker, heap, live, sysCall>>
    /\ IssuedStep
    /\ UNCHANGED <<pool, mapped, pc, stackVars>>

\* owns of pool k returns to thread t
POwns(t) ==
    LET th == threads[t]
        a == ProbeOrder(mgr, th.op)[th.k]
    IN
    /\ th.pc = "owns"
    /\ threads' = [threads EXCEPT ![t] =
          [th EXCEPT !.holds = Unlock(th.holds, a),
                     !.pc = IF Owns(RoutedPool(mgr, a), th.ptr) THEN "claimed" ELSE "probe",
                     !.k = IF Owns(RoutedPool(mgr, a), th.ptr) THEN th.k ELSE th.k + 1]]
    /\ UNCHANGED <<mgr, tracker, heap, live, sysCall>>
    /\ IssuedStep
    /\ UNCHANGED <<pool, mapped, pc, stackVars>>

\* thread t calls deallocate or reallocate of the pool that claimed ptr
PEnter(t) ==
    LET th == threads[t]
        a == ProbeOrder(mgr, th.op)[th.k]
    IN
    /\ th.pc = "claimed"
    /\ MutexFree(a)
    /\ threads' = [threads EXCEPT ![t].pc = "inside", ![t].holds = @ \cup {a}]
    /\ UNCHANGED <<mgr, tracker, heap, live, sysCall>>
    /\ IssuedStep
    /\ UNCHANGED <<pool, mapped, pc, stackVars>>

\* the pool's deallocate returns; the pool's reallocate returns ptr when the block
\* is large enough and else calls allocate, which locks the mutex once more
PLeave(t) ==
    LET th == threads[t]
        a == ProbeOrder(mgr, th.op)[th.k]
        p == RoutedPool(mgr, a)
    IN
    /\ th.pc = "inside"
    /\ \E block \in BlockChoices(p, th.ptr) :
          IF th.op = "deallocate"
          THEN LET r == PoolDeallocate(p, tracker, th.ptr, block) IN
               /\ mgr' = SetRoutedPool(mgr, a, r.pool)
               /\ tracker' = r.trk
               /\ live' = live \ Released(p, block, live)
               /\ threads' = [threads EXCEPT ![t] = IdleProber]
          ELSE /\ UNCHANGED <<mgr, live>>
               /\ IF block = NoBlock
                  THEN /\ threads' = [threads EXCEPT ![t] = IdleProber]
                       /\ UNCHANGED tracker
                  ELSE IF th.newSize <= p.blocks[block].size
                  THEN /\ threads' = [threads EXCEPT ![t] = IdleProber]
                       /\ tracker' = IF tracker.trackingEnabled
                                     THEN TrackReallocation(tracker, th.ptr, th.ptr, th.newSize)
                                     ELSE tracker
                  ELSE /\ \E o \in {"blocked", "threw"} :
                             threads' = [threads EXCEPT ![t] =
                                 IF o = "blocked" THEN [th EXCEPT !.pc = "blocked"]
                                 ELSE [IdleProber EXCEPT !.holds = Unlock(th.holds, a)]]
                       /\ UNCHANGED tracker
    /\ UNCHANGED <<heap, sysCall>>
    /\ IssuedStep
    /\ UNCHANGED <<pool, mapped, pc, stackVars>>

\* thread t calls allocate of stack allocator i and gets its mutex
PStackLock(t, i, size) ==
    /\ threads[t].pc = "idle"
    /\ MutexFree([to |-> "stack", i |-> i])
    /\ threads' = [threads EXCEPT ![t] =
          [IdleProber EXCEPT !.pc = "stack", !.op = "allocate", !.newSize = size, !.k = i,
                             !.holds = {[to |-> "stack", i |-> i]}]]
    /\ UNCHANGED <<mgr, tracker, heap, live, sysCall>>
    /\ IssuedStep
    /\ UNCHANGED <<pool, mapped, pc, stackVars>>

\* the stack allocator's allocate returns to thread t
PStackAllocate(t) ==
    LET th == threads[t] IN
    /\ th.pc = "stack"
    /\ mgr' = [mgr EXCEPT !.stackAllocators[th.k] =
                  StackAllocate(@, th.newSize, DefaultAlignment).stack]
    /\ threads' = [threads EXCEPT ![t] = IdleProber]
    /\ UNCHANGED <<tracker, heap, live, sysCall>>
    /\ UNCHANGED issued
    /\ UNCHANGED <<pool, mapped, pc, stackVars>>

NextProbe ==
    \/ \E t \in Threads, op \in {"deallocate", "reallocate"}, ptr \in HeldPtrs \ {NullPtr},
          newSize \in Sizes : PCall(t, op, ptr, newSize)
    \/ \E t \in Threads : PProbe(t)
    \/ \E t \in Threads : POwns(t)
    \/ \E t \in Threads : PEnter(t)
    \/ \E t \in Threads : PLeave(t)
    \/ \E t \in Threads, i \in 1..Len(mgr.stackAllocators), size \in MgrSizes :
          PStackLock(t, i, size)
    \/ \E t \in Threads : PStackAllocate(t)

SpecProbe == InitProbe /\ [][NextProbe]_vars

\* C17: no thread holds the mutexes of two allocators at once; the probe of
\* deallocate and reallocate has released one pool's mutex before it asks the next
\* allocator or calls into the pool that claimed the pointer.
C17_OneAllocatorMutexAtATime ==
    \A t \in Threads :
        /\ Cardinality(threads[t].holds) <= 1
        /\ threads[t].pc \in {"probe", "claimed"} => threads[t].holds = {}

C17_Witness ==
    \E t \in Threads :
        /\ threads[t].pc = "owns"
        /\ threads[t].k = 2
        /\ threads[t].holds = {[to |-> "pool", i |-> 1]}
        /\ \E u \in Threads \ {t} : threads[u].holds = {[to |-> "default", i |-> 1]}

----------------------------------------------------------------------------
\* Claims about a failing allocate, coalescing and reuse (SpecPool)

\* the step is a call of allocate that returned nullptr
AllocateReturnedNull ==
    /\ \E size \in Sizes, alignment \in Alignments : Allocate(size, alignment)
    /\ live' = live

\* C18 as claimed: an allocate that returns null has had no effect: the arena list,
\* the block list, the used flags and the statistics are those before the call.
C18_NullAllocateLeavesPoolUnchanged ==
    [][AllocateReturnedNull => pool' = pool /\ mapped' = mapped]_vars

\* the blocks whose next block in the arena is free as they are
FreeWithFreeNext(p) ==
    {b \in DOMAIN p.blocks :
        /\ ~p.blocks[b].used
        /\ p.blocks[b].next # NoBlock
        /\ ~p.blocks[p.blocks[b].next].used}

\* the step is a deallocate that freed a block
DeallocateFreed ==
    /\ \E ptr \in PtrInputs(pool) : Deallocate(ptr)
    /\ pool'.stats.deallocationCount # pool.stats.deallocationCount

ReusesFreeBlock(p, trk, size, alignment) ==
    \A base \in SysChoices(Max(size, p.config.blockSize)) :
        Len(PoolAllocate(p, trk, size, alignment, base).pool.pools) = Len(p.pools)

\* C20: an allocate step that maps a new arena started where no free block could
\* hold the aligned request; and once a deallocate has released an allocation, an
\* allocate of the same size (and an alignment the released pointer has) that
\* follows at once maps no arena.
C20_ExpandsOnlyWhenNothingFits ==
    [][/\ \A size \in Sizes, alignment \in Alignments :
             Allocate(size, alignment) /\ Len(pool'.pools) > Len(pool.pools)
                 => \A b \in DOMAIN pool.blocks :
                       ~pool.blocks[b].used =>
                           Padding(pool.blocks[b].data, alignment) + size > pool.blocks[b].size
       /\ \A ptr \in PtrInputs(pool) :
             Deallocate(ptr)
                 => \A l \in live \ live', alignment \in Alignments :
                       AlignUp(l.ptr, alignment) = l.ptr
                           => ReusesFreeBlock(pool', tracker', l.size, alignment)]_vars

\* allocate(S), deallocate of its result, allocate(S) again: one arena as before,
\* the second result in the block of the first
C20_Witness ==
    /\ pool.stats.allocationCount = 2
    /\ pool.stats.deallocationCount = 1
    /\ Len(pool.pools) = 1
    /\ \E l \in live : /\ live = {l}
                       /\ l.n = 2
                       /\ pool.stats.totalAllocated = 2 * l.size
                       /\ l.ptr = pool.pools[1].base

----------------------------------------------------------------------------
\* Claims about calls that must change nothing (SpecPool)

\* ptr lies in no used block of p: in a free block, or in no block at all
InNoUsedBlock(p, ptr) == \A b \in FindBlocks(p, ptr) : ~p.blocks[b].used

\* C21: deallocate(p) with p in a block that is already free, or in no block of
\* the pool, changes nothing: blocks, used flags, statistics, free list, lookup
\* table and the tracker are as before.
C21_DeallocateOfFreeIsNoOp ==
    [][\A ptr \in PtrInputs(pool) :
          Deallocate(ptr) /\ InNoUsedBlock(pool, ptr)
              => pool' = pool /\ tracker' = tracker /\ live' = live]_vars

\* an allocation was freed, and freeing its pointer again, or a pointer past every
\* arena, gives the pool and the tracker back as they are
C21_Witness ==
    /\ pool.stats.allocationCount = 1
    /\ pool.stats.deallocationCount = 1
    /\ pool.config.enableTracking
    /\ Len(pool.pools) >= 1
    /\ \E b \in FindBlocks(pool, pool.pools[1].base) :
          /\ ~pool.blocks[b].used
          /\ PoolDeallocate(pool, tracker, pool.pools[1].base, b) = [pool |-> pool, trk |-> tracker]
    /\ FindBlocks(pool, AddrLimit) = {}
    /\ PoolDeallocate(pool, tracker, AddrLimit, NoBlock) = [pool |-> pool, trk |-> tracker]

\* C22: reallocate(ptr, newSize) with 0 < newSize <= the size of the block that
\* holds ptr returns ptr and leaves blocks, used flags and statistics as they are;
\* it holds of the call in every state, and no such step changes the pool.
C22_ReallocateThatFitsReturnsPtr ==
    /\ [](\A ptr \in PtrInputs(pool) \ {NullPtr}, newSize \in Sizes \ {0} :
             \A b \in FindBlocks(pool, ptr) :
                 newSize <= pool.blocks[b].size
                     => PoolReallocate(pool, ptr, newSize, b)
                            = [pool |-> pool, result |-> ptr, returned |-> TRUE])
    /\ [][\A ptr \in PtrInputs(pool) \ {NullPtr}, newSize \in Sizes \ {0} :
             (/\ Reallocate(ptr, newSize)
              /\ \A b \in FindBlocks(pool, ptr) : newSize <= pool.blocks[b].size)
                 => pool' = pool /\ tracker' = tracker /\ live' = live /\ pc' = "idle"]_vars

\* a live allocation in a used block of exactly its size, and a larger one that
\* can shrink: reallocate to the same and to a smaller size both fit
C22_Witness ==
    /\ \E l \in live :
          \E b \in FindBlocks(pool, l.ptr) :
              /\ pool.blocks[b].used
              /\ pool.blocks[b].size = l.size
              /\ PoolReallocate(pool, l.ptr, l.size, b).result = l.ptr
    /\ \E l \in live :
          \E b \in FindBlocks(pool, l.ptr), newSize \in Sizes \ {0} :
              /\ newSize < l.size
              /\ PoolReallocate(pool, l.ptr, newSize, b).result = l.ptr

----------------------------------------------------------------------------
\* Claims about StackAllocator calls that must change nothing (SpecStack)

\* the request does not fit what is left of the arena: offset + padding + size,
\* added without wrapping, exceeds totalSize
StackLacksRoom(st, size, alignment) ==
    st.currentOffset + Padding(WAdd(st.memory, st.currentOffset), alignment) + size
        > st.totalSize

\* the sizes of SpecStack and the largest size a caller can pass
AnyRequests == StackRequests \cup {Word - 1}

\* SpecStackAny: the calls of SpecStack, allocate with any size
NextStackAny ==
    \/ \E size \in AnyRequests, alignment \in StackAlignments : SAllocate(size, alignment)
    \/ NextStack

SpecStackAny == InitStack /\ [][NextStackAny]_vars

\* C23 as claimed: an allocate(size, alignment) whose aligned request does not fit
\* in the remaining arena returns null and leaves offset and statistics unchanged,
\* for every size and alignment.
C23_AllocateWithoutRoomReturnsNull ==
    [][\A size \in AnyRequests, alignment \in StackAlignments :
          SAllocate(size, alignment) /\ StackLacksRoom(stack, size, alignment)
              => called'.arg = NullPtr /\ stack' = stack]_vars

----------------------------------------------------------------------------
\* Claims about the facade (SpecMgr)

\* C25: createStackAllocator either appends an allocator whose arena the platform
\* reserved, or, when the platform gave none, leaves by an exception with the
\* manager as it was; the manager's mutex is free whenever no call is inside the
\* manager, also while the exception travels, so the next call gets it.
C25_FailedConstructionLeavesManager ==
    /\ [](pc \in {"idle", "threw"} => mgr.lockedBy = NoThread)
    /\ [][\A size \in StackSizes :
             CreateStackAllocator(size) =>
                 \/ /\ pc' = "threw"
                    /\ mgr' = mgr
                    /\ heap' = heap
                 \/ /\ pc' = "idle"
                    /\ Len(mgr'.stackAllocators) = Len(mgr.stackAllocators) + 1
                    /\ mgr'.stackAllocators[Len(mgr'.stackAllocators)].memory # NullPtr
                    /\ heap' # heap]_vars

\* the constructor has thrown out of createStackAllocator on a manager that has
\* nothing yet: no stack allocator was added and the mutex is free
C25_Witness ==
    /\ pc = "threw"
    /\ mgr = NewManager
    /\ heap = {}

\* what the default pool of m may answer to allocate(size, alignment)
DefaultPoolAnswers(m, trk, size, alignment) ==
    {PoolAllocate(m.defaultPool[1], trk, size, alignment, base).result :
        base \in SysChoices(Max(size, PageSize))}

\* C26: a facade allocate returns a pointer of the default pool whenever the
\* manager is initialized and the default pool accepts the request, and a pointer
\* of the platform's aligned allocator exactly when the manager is not initialized
\* or the default pool answered null; it never touches the auxiliary pools or the
\* stack allocators.
C26_AllocateFromDefaultPoolOrPlatform ==
    [][\A size \in MgrSizes, alignment \in MgrAlignments, site \in CallSites :
          MgrAllocateCall(size, alignment, site) =>
              /\ mgr'.pools = mgr.pools
              /\ mgr'.stackAllocators = mgr.stackAllocators
              /\ \A l \in live' \ live :
                    /\ IF heap' = heap
                       THEN /\ mgr.initialized
                            /\ ClaimedByDefault(mgr', l.ptr)
                            /\ \A b \in FindBlocks(mgr'.defaultPool[1], l.ptr) :
                                  mgr'.defaultPool[1].blocks[b].used
                       ELSE /\ HeapHas(heap', l.ptr)
                            /\ ~ClaimedByDefault(mgr', l.ptr)
                            /\ \/ ~mgr.initialized
                               \/ NullPtr \in DefaultPoolAnswers(mgr, tracker, size, alignment)
              /\ (mgr.initialized
                    /\ NullPtr \notin DefaultPoolAnswers(mgr, tracker, size, alignment))
                    => live' # live /\ heap' = heap]_vars

\* an initialized manager whose default pool has an arena answered the one request
\* from the platform, the default pool having answered null
C26_Witness ==
    /\ mgr.initialized
    /\ mgr.defaultPool[1].pools # <<>>
    /\ \E l \in live :
          /\ l.n = 1
          /\ HeapHas(heap, l.ptr)
          /\ ~ClaimedByDefault(mgr, l.ptr)
          /\ l.ptr \in DOMAIN tracker.allocations

----------------------------------------------------------------------------
\* The calls on the MemoryTracker (SpecTracker).

\* bounds of SpecTracker: records made, and the arguments of the calls
MaxTracked == 2
TrackedPtrs == {1, 2}
TrackedSizes == {3, 12}

InitTracker ==
    /\ tracker = NewTracker
    /\ called = NoCall
    /\ pool = EmptyPool(CHOOSE c \in PoolConfigs : c.enableTracking)
    /\ mapped = {}
    /\ heap = {}
    /\ mgr = NewManager
    /\ live = {}
    /\ issued = 0
    /\ pc = At("idle")
    /\ sysCall = NoSysCall
    /\ stack = NoStack
    /\ markers = {}
    /\ threads = NoThreads

TrackerFrame ==
    UNCHANGED <<pool, mapped, heap, mgr, live, issued, pc, sysCall, stack, markers, threadVars>>

TTrackAllocation(ptr, size) ==
    /\ tracker.globalStats.allocationCount < MaxTracked
    /\ tracker' = TrackAllocation(tracker, ptr, size, DefaultAlignment, "t1", "main.cpp", 17)
    /\ called' = Called("trackAllocation", ptr)
    /\ TrackerFrame

TTrackDeallocation(ptr) ==
    /\ tracker' = TrackDeallocation(tracker, ptr)
    /\ called' = Called("trackDeallocation", ptr)
    /\ TrackerFrame

TTrackReallocation(oldPtr, newPtr, newSize) ==
    /\ tracker.globalStats.allocationCount < MaxTracked
    /\ tracker' = TrackReallocation(tracker, oldPtr, newPtr, newSize)
    /\ called' = Called("trackReallocation", newPtr)
    /\ TrackerFrame

TEnableTracking(enable) ==
    /\ tracker' = [tracker EXCEPT !.trackingEnabled = enable]
    /\ called' = Called("enableTracking", NullPtr)
    /\ TrackerFrame

NextTracker ==
    \/ \E ptr \in TrackedPtrs, size \in TrackedSizes : TTrackAllocation(ptr, size)
    \/ \E ptr \in TrackedPtrs : TTrackDeallocation(ptr)
    \/ \E oldPtr \in TrackedPtrs, newPtr \in TrackedPtrs, newSize \in TrackedSizes :
          TTrackReallocation(oldPtr, newPtr, newSize)
    \/ \E enable \in BOOLEAN : TEnableTracking(enable)

SpecTracker == InitTracker /\ [][NextTracker]_vars

\* C27: while tracking is disabled, trackAllocation, trackDeallocation and
\* trackReallocation leave the table and the global statistics as they are; with
\* tracking enabled (again) trackAllocation records the pointer and counts it.
C27_DisabledTrackerRecordsNothing ==
    [][/\ (~tracker.trackingEnabled
             /\ called'.fn \in {"trackAllocation", "trackDeallocation", "trackReallocation"})
             => tracker' = tracker
       /\ \A ptr \in TrackedPtrs, size \in TrackedSizes :
             (tracker.trackingEnabled /\ TTrackAllocation(ptr, size))
                 => /\ ptr \in DOMAIN tracker'.allocations
                    /\ tracker'.allocations[ptr].size = size
                    /\ tracker'.globalStats.allocationCount
                          = tracker.globalStats.allocationCount + 1]_vars

\* tracking was on for one record, then off: a trackDeallocation of the recorded
\* pointer has left the record and the counters
C27_Witness ==
    /\ ~tracker.trackingEnabled
    /\ called.fn = "trackDeallocation"
    /\ called.arg \in DOMAIN tracker.allocations
    /\ tracker.globalStats.allocationCount = 1
    /\ tracker.globalStats.deallocationCount = 0

----------------------------------------------------------------------------
\* getFragmentation and reset of a MemoryPool.

\* the blocks the loop over blockMap finds not used
MappedFree(p) == {p.blocks[p.blockMap[k]] : k \in {d \in DOMAIN p.blockMap : ~p.blocks[p.blockMap[d]].used}}

\* the size of the largest block in S (0 for none)
LargestSize(S) == IF S = {} THEN 0 ELSE Max(0, CHOOSE n \in {b.size : b \in S} : \A b \in S : b.size <= n)

\* getFragmentation with totalFree summed over all blocks
GetFragmentationCountingUsed(p) ==
    LET totalFree == SumSizes({p.blocks[p.blockMap[k]] : k \in DOMAIN p.blockMap})
        largestFree == LargestSize(MappedFree(p))
    IN IF totalFree = 0 THEN 0 ELSE ((totalFree - largestFree) * 100) \div totalFree

\* MemoryPool::getFragmentation (a pool's sizes times 100 stay below the word)
GetFragmentation(p) ==
    LET totalFree == SumSizes(MappedFree(p))
        largestFree == LargestSize(MappedFree(p))
    IN IF totalFree = 0 THEN 0 ELSE ((totalFree - largestFree) * 100) \div totalFree

\* the free blocks of the pool's block lists
FreeBlocksOf(p) == {p.blocks[b] : b \in {c \in DOMAIN p.blocks : ~p.blocks[c].used}}

\* C28: getFragmentation() is 0 when the pool has no free bytes and else
\* (totalFree - largestFreeBlock) * 100 / totalFree over the pool's free blocks; a
\* pool of one arena made of one used and one free block reports 0.
C28_FragmentationFormula ==
    /\ SumSizes(FreeBlocksOf(pool)) = 0 => GetFragmentation(pool) = 0
    /\ SumSizes(FreeBlocksOf(pool)) > 0 =>
          \E largest \in FreeBlocksOf(pool) :
              /\ \A b \in FreeBlocksOf(pool) : b.size <= largest.size
              /\ GetFragmentation(pool)
                    = ((SumSizes(FreeBlocksOf(pool)) - largest.size) * 100)
                          \div SumSizes(FreeBlocksOf(pool))
    /\ (/\ Len(pool.pools) = 1
        /\ Cardinality(DOMAIN pool.blocks) = 2
        /\ Cardinality(UsedBlocks(pool)) = 1) => GetFragmentation(pool) = 0

\* one arena split into a used block and the free remainder
C28_Witness ==
    /\ Len(pool.pools) = 1
    /\ Cardinality(DOMAIN pool.blocks) = 2
    /\ Cardinality(UsedBlocks(pool)) = 1
    /\ SumSizes(FreeBlocksOf(pool)) > 0
    /\ GetFragmentation(pool) = 0

\* MemoryPool::reset: the arenas after the first go back to the OS, pools is
\* resized to one entry (a null one when the constructor got no arena), every
\* block of blockMap is marked free and pushed on the rebuilt free list in the
\* unordered_map's iteration order, and the statistics are zeroed
PoolResets(p) ==
    {[p EXCEPT
        !.pools = IF p.pools = <<>> THEN <<[base |-> NullPtr, size |-> 0]>>
                  ELSE <<p.pools[1]>>,
        !.blocks = [b \in DOMAIN p.blocks |->
                       IF \E k \in DOMAIN p.blockMap : p.blockMap[k] = b
                       THEN [p.blocks[b] EXCEPT !.used = FALSE] ELSE p.blocks[b]],
        !.freeBlocks = order,
        !.stats = ZeroStats] :
     order \in {o \in [1..Cardinality(DOMAIN p.blockMap) -> DOMAIN p.blocks] :
                   {o[i] : i \in DOMAIN o} = {p.blockMap[k] : k \in DOMAIN p.blockMap}}}

\* the arenas reset hands to deallocateFromSystem
ResetReleases(p) == {p.pools[i] : i \in 2..Len(p.pools)}

MaxResets == 1

\* history: the number of reset() calls made so far
Resets == IF called.fn = "reset" THEN called.arg ELSE 0

Reset ==
    /\ Idle
    /\ Resets < MaxResets
    /\ pool' \in PoolResets(pool)
    /\ mapped' = mapped \ ResetReleases(pool)
    /\ live' = {}
    /\ called' = [fn |-> "reset", arg |-> Resets + 1]
    /\ pc' = At("idle")
    /\ UNCHANGED <<tracker, heap, mgr, sysCall>>
    /\ IssuedStep
    /\ UNCHANGED <<stack, markers, threadVars>>

\* a pool built without tracking
InitReset == InitPool /\ ~pool.config.enableTracking

NextReset ==
    \/ \E size \in Sizes : Allocate(size, 1)
    \/ \E l \in live : Deallocate(l.ptr)
    \/ ExpandCall(12)
    \/ Reset

SpecReset == InitReset /\ [][NextReset]_vars

\* the address lies in an arena the pool holds from the OS
InMapped(addr) == \E m \in mapped : addr >= m.base /\ addr < m.base + m.size

\* C29: the pool refers only to arenas it holds, also after reset() released the
\* arenas after the first: every block, free-list entry and lookup-table entry
\* lies in a held arena, owns(p) is false for every p outside them, and no
\* pointer a caller holds from allocate lies outside them.
C29_ResetLeavesOnlyFirstArena ==
    /\ \A k \in DOMAIN pool.blockMap : InMapped(k)
    /\ \A i \in 1..Len(pool.freeBlocks) : InMapped(pool.blocks[pool.freeBlocks[i]].data)
    /\ \A b \in DOMAIN pool.blocks : InMapped(pool.blocks[b].data)
    /\ \A ptr \in 0..AddrLimit : Owns(pool, ptr) => InMapped(ptr)
    /\ \A l \in live : InMapped(l.ptr)

----------------------------------------------------------------------------
\* MemoryManager::deallocate on one thread while another thread creates and
\* destroys allocators.  createPool, destroyPool, destroyStackAllocator and
\* shutdown hold the manager's mutex from their first line to their last, and
\* deallocate never takes it, so each of them is one step between any two steps
\* of deallocate.

Caller == "t1"

MaxLifecyclePools == 2

\* the pointers the caller got before: one of each allocator and one of the heap
LifecyclePtrs == {l.ptr : l \in ProbeSetup.live}

NoRef == [to |-> "none", i |-> 0]

\* pc: "idle", "entry" (before `if (!initialized)`), "default" (before
\* `if (defaultPool && ...`), "owns" (inside ref's owns), "deallocate" (before
\* `->deallocate(ptr)`), "pools" and "stacks" (at the head of the loop, k-th
\* element next), "undefined" (the call has done what the language leaves undefined)
\* ref: the allocator whose address the thread has read; gone: it was destroyed
\* since; invalid: the vector being iterated was modified since the loop began
IdleCaller ==
    [pc |-> "idle", ptr |-> NullPtr, k |-> 0, ref |-> NoRef, gone |-> FALSE,
     invalid |-> FALSE, misuse |-> "none"]

Misuse(th, what) == [th EXCEPT !.pc = "undefined", !.misuse = what]

\* the vector the thread holds an iterator of (begin() is called when k is 1)
Iterating(th) ==
    IF (th.pc = "pools" /\ th.k > 1) \/ (th.pc \in {"owns", "deallocate"} /\ th.ref.to = "pool")
    THEN "pool"
    ELSE IF (th.pc = "stacks" /\ th.k > 1) \/ (th.pc = "owns" /\ th.ref.to = "stack")
    THEN "stack"
    ELSE "none"

\* history: what the other thread's call did to the allocators this thread refers to
Disturb(ths, destroyed, modified) ==
    [t \in DOMAIN ths |->
        [ths[t] EXCEPT !.gone = @ \/ ths[t].ref \in destroyed,
                       !.invalid = @ \/ Iterating(ths[t]) \in modified]]

\* history: ref goes on naming the same allocator when the i-th element of its
\* vector is erased and the later ones move down
Reindex(ths, to, i) ==
    [t \in DOMAIN ths |->
        IF ths[t].ref.to = to /\ ths[t].ref.i > i
        THEN [ths[t] EXCEPT !.ref.i = @ - 1] ELSE ths[t]]

InitLifecycle ==
    /\ mgr = ProbeSetup.mgr
    /\ heap = ProbeSetup.heap
    /\ live = ProbeSetup.live
    /\ issued = Cardinality(live)
    /\ mapped = MgrMapped(mgr)
    /\ threads = [t \in {Caller} |-> IdleCaller]
    /\ pool = EmptyPool(CHOOSE c \in PoolConfigs : c.enableTracking)
    /\ tracker = [NewTracker EXCEPT !.trackingEnabled = FALSE]
    /\ pc = At("idle")
    /\ sysCall = NoSysCall
    /\ stack = NoStack
    /\ markers = {}
    /\ called = NoCall

CallerFrame == UNCHANGED <<pool, mapped, pc, stackVars>> /\ IssuedStep

\* thread t calls MemoryManager::deallocate(ptr), ptr not null
CCall(t, ptr) ==
    /\ threads[t].pc = "idle"
    /\ threads' = [threads EXCEPT ![t] = [IdleCaller EXCEPT !.pc = "entry", !.ptr = ptr]]
    /\ UNCHANGED <<mgr, tracker, heap, live, sysCall>>
    /\ CallerFrame

\* `if (!initialized) { std::free(ptr); return; }`
CInitialized(t) ==
    /\ threads[t].pc = "entry"
    /\ IF ~mgr.initialized
       THEN PlatformFree(threads[t].ptr) /\ threads' = [threads EXCEPT ![t] = IdleCaller]
       ELSE /\ threads' = [threads EXCEPT ![t].pc = "default"]
            /\ UNCHANGED <<mgr, tracker, heap, live, sysCall>>
    /\ CallerFrame

\* `if (defaultPool && ...`: the unique_ptr is read
CDefault(t) ==
    /\ threads[t].pc = "default"
    /\ threads' = [threads EXCEPT ![t] =
          IF mgr.defaultPool = <<>>
          THEN [@ EXCEPT !.pc = "pools", !.k = 1, !.invalid = FALSE]
          ELSE [@ EXCEPT !.pc = "owns", !.ref = [to |-> "default", i |-> 1],
                         !.gone = FALSE]]
    /\ UNCHANGED <<mgr, tracker, heap, live, sysCall>>
    /\ CallerFrame

\* whether the allocator ref names claims ptr
RefOwns(m, ref, ptr) ==
    IF ref.to = "stack" THEN StackOwns(m.stackAllocators[ref.i], ptr)
    ELSE Owns(RoutedPool(m, ref), ptr)

\* `ref->owns(ptr)` runs and returns
COwns(t) ==
    LET th == threads[t] IN
    /\ th.pc = "owns"
    /\ threads' = [threads EXCEPT ![t] =
          IF th.gone THEN Misuse(th, "destroyed")
          ELSE IF RefOwns(mgr, th.ref, th.ptr)
          THEN IF th.ref.to = "stack" THEN IdleCaller ELSE [th EXCEPT !.pc = "deallocate"]
          ELSE IF th.ref.to = "default"
          THEN [th EXCEPT !.pc = "pools", !.k = 1, !.invalid = FALSE]
          ELSE IF th.ref.to = "pool" THEN [th EXCEPT !.pc = "pools", !.k = th.k + 1]
          ELSE [th EXCEPT !.pc = "stacks", !.k = th.k + 1]]
    /\ UNCHANGED <<mgr, tracker, heap, live, sysCall>>
    /\ CallerFrame

\* `defaultPool->deallocate(ptr)` or `pool->deallocate(ptr)`: the unique_ptr is
\* read once more (inside the vector for `pool`) and the pool's deallocate runs
CDeallocate(t) ==
    LET th == threads[t] IN
    /\ th.pc = "deallocate"
    /\ IF th.invalid \/ th.gone
       THEN /\ threads' = [threads EXCEPT ![t] =
                   Misuse(th, IF th.invalid THEN "iterating" ELSE "destroyed")]
            /\ UNCHANGED <<mgr, tracker, live>>
       ELSE \E block \in BlockChoices(RoutedPool(mgr, th.ref), th.ptr) :
               LET r == PoolDeallocate(RoutedPool(mgr, th.ref), tracker, th.ptr, block) IN
               /\ mgr' = SetRoutedPool(mgr, th.ref, r.pool)
               /\ tracker' = r.trk
               /\ live' = live \ Released(RoutedPool(mgr, th.ref), block, live)
               /\ threads' = [threads EXCEPT ![t] = IdleCaller]
    /\ UNCHANGED <<heap, sysCall>>
    /\ CallerFrame

\* `for (auto& pool : pools)`: the iterator is compared with end() and dereferenced
CPools(t) ==
    LET th == threads[t] IN
    /\ th.pc = "pools"
    /\ threads' = [threads EXCEPT ![t] =
          IF th.invalid THEN Misuse(th, "iterating")
          ELSE IF th.k > Len(mgr.pools)
          THEN [th EXCEPT !.pc = "stacks", !.k = 1, !.ref = NoRef]
          ELSE [th EXCEPT !.pc = "owns", !.ref = [to |-> "pool", i |-> th.k],
                          !.gone = FALSE]]
    /\ UNCHANGED <<mgr, tracker, heap, live, sysCall>>
    /\ CallerFrame

\* `for (auto& stack : stackAllocators)`, and std::free(ptr) after the loop
CStacks(t) ==
    LET th == threads[t] IN
    /\ th.pc = "stacks"
    /\ IF th.invalid
       THEN /\ threads' = [threads EXCEPT ![t] = Misuse(th, "iterating")]
            /\ UNCHANGED <<mgr, tracker, heap, live, sysCall>>
       ELSE IF th.k > Len(mgr.stackAllocators)
       THEN PlatformFree(th.ptr) /\ threads' = [threads EXCEPT ![t] = IdleCaller]
       ELSE /\ threads' = [threads EXCEPT ![t] =
                   [th EXCEPT !.pc = "owns", !.ref = [to |-> "stack", i |-> th.k],
                              !.gone = FALSE]]
            /\ UNCHANGED <<mgr, tracker, heap, live, sysCall>>
    /\ CallerFrame

\* the memory of the stack allocators, which their destructor frees
StackMemory(stacks) == {stacks[i].memory : i \in 1..Len(stacks)}

\* what every call of the other thread leaves alone; the caller's pointers into
\* released memory end
LifecycleFrame ==
    /\ mapped' = MgrMapped(mgr')
    /\ live' = {l \in live : \E r \in mapped' \cup heap' :
                                 l.ptr >= r.base /\ l.ptr < r.base + r.size}
    /\ sysCall' = NoSysCall
    /\ UNCHANGED <<pool, tracker, pc, stackVars>>
    /\ IssuedStep

\* MemoryManager::shutdown
LShutdown ==
    /\ mgr.initialized
    /\ mgr' = [mgr EXCEPT !.stackAllocators = <<>>, !.pools = <<>>, !.defaultPool = <<>>,
                          !.initialized = FALSE]
    /\ heap' = {r \in heap : r.base \notin StackMemory(mgr.stackAllocators)}
    /\ threads' = Disturb(threads,
                          {[to |-> "default", i |-> 1]}
                              \cup {[to |-> "pool", i |-> i] : i \in 1..Len(mgr.pools)}
                              \cup {[to |-> "stack", i |-> i] : i \in 1..Len(mgr.stackAllocators)},
                          {"pool", "stack"})
    /\ LifecycleFrame

\* MemoryManager::createPool
LCreatePool(config) ==
    /\ Len(mgr.pools) < MaxLifecyclePools
    /\ \E base \in SysChoices(config.initialSize) :
          mgr' = [mgr EXCEPT !.pools = Append(@, NewPool(config, base))]
    /\ heap' = heap
    /\ threads' = Disturb(threads, {}, {"pool"})
    /\ LifecycleFrame

\* MemoryManager::destroyPool of the i-th pool
LDestroyPool(i) ==
    /\ mgr' = [mgr EXCEPT !.pools = SubSeq(@, 1, i - 1) \o SubSeq(@, i + 1, Len(@))]
    /\ heap' = heap
    /\ threads' = Reindex(Disturb(threads, {[to |-> "pool", i |-> i]}, {"pool"}), "pool", i)
    /\ LifecycleFrame

\* MemoryManager::destroyStackAllocator of the i-th stack allocator
LDestroyStackAllocator(i) ==
    /\ mgr' = [mgr EXCEPT !.stackAllocators = SubSeq(@, 1, i - 1) \o SubSeq(@, i + 1, Len(@))]
    /\ heap' = HeapFree(heap, mgr.stackAllocators[i].memory)
    /\ threads' = Reindex(Disturb(threads, {[to |-> "stack", i |-> i]}, {"stack"}), "stack", i)
    /\ LifecycleFrame

NextLifecycle ==
    \/ \E ptr \in LifecyclePtrs : CCall(Caller, ptr)
    \/ CInitialized(Caller)
    \/ CDefault(Caller)
    \/ COwns(Caller)
    \/ CDeallocate(Caller)
    \/ CPools(Caller)
    \/ CStacks(Caller)
    \/ LShutdown
    \/ \E config \in AuxConfigs : LCreatePool(config)
    \/ \E i \in 1..Len(mgr.pools) : LDestroyPool(i)
    \/ \E i \in 1..Len(mgr.stackAllocators) : LDestroyStackAllocator(i)

SpecLifecycle == InitLifecycle /\ [][NextLifecycle]_vars

\* C30: a thread inside MemoryManager::deallocate never calls into a pool or
\* stack allocator that another thread's destroyPool, destroyStackAllocator or
\* shutdown has destroyed, and never goes on iterating pools or stackAllocators
\* after another thread's createPool, destroyPool, destroyStackAllocator or
\* shutdown modified the vector.
C30_CallerMeetsNoDestroyedAllocator == \A t \in DOMAIN threads : threads[t].misuse = "none"

----------------------------------------------------------------------------
\* One thread calling initialize, allocate, deallocate and shutdown in any order.

\* MemoryManager::shutdown: the default pool, the pools and the stack allocators
\* are destroyed; the caller keeps the pointers it was given
Shutdown ==
    /\ Idle
    /\ mgr.lockedBy = NoThread
    /\ IF ~mgr.initialized THEN UNCHANGED <<mgr, mapped, heap>>
       ELSE /\ mgr' = [mgr EXCEPT !.stackAllocators = <<>>, !.pools = <<>>,
                                  !.defaultPool = <<>>, !.initialized = FALSE]
            /\ mapped' = {}
            /\ heap' = {r \in heap : r.base \notin StackMemory(mgr.stackAllocators)}
    /\ sysCall' = NoSysCall
    /\ UNCHANGED <<pool, tracker, live, pc>>
    /\ IssuedStep
    /\ UNCHANGED <<stackVars, threadVars>>

NextSequence ==
    \/ \E config \in PoolConfigs : Initialize(config)
    \/ \E size \in MgrSizes, alignment \in MgrAlignments, site \in CallSites :
          MgrAllocateCall(size, alignment, site)
    \/ \E ptr \in HeldPtrs : MgrDeallocateCall(ptr)
    \/ Shutdown

SpecSequence == InitMgr /\ [][NextSequence]_vars

\* C31: every pointer passed to MemoryManager::deallocate goes back to the
\* allocator that issued it: one the default pool issued is not handed to
\* std::free, and one the platform issued is not handed to a pool.
C31_DeallocateReleasesToIssuer ==
    [][\A ptr \in HeldPtrs :
          MgrDeallocateCall(ptr) =>
              \A l \in live :
                  l.ptr = ptr =>
                      /\ l.by = "default" => sysCall'.fn # "free"
                      /\ l.by = "platform" => mgr'.defaultPool = mgr.defaultPool]_vars

----------------------------------------------------------------------------
\* The tracker's statistics against its table.

\* MemoryTracker::reset
TReset ==
    /\ tracker' = [tracker EXCEPT !.allocations = EmptyMap, !.globalStats = ZeroStats]
    /\ called' = Called("reset", NullPtr)
    /\ TrackerFrame

NextTrackerAll == NextTracker \/ TReset

SpecTrackerAll == InitTracker /\ [][NextTrackerAll]_vars

\* the records getActiveAllocations returns, each with its pointer
Recorded(trk) == {[ptr |-> p, size |-> trk.allocations[p].size] : p \in DOMAIN trk.allocations}

\* C32: getGlobalStats().currentUsage equals the sum of the sizes of the records
\* of getActiveAllocations(), also after a pointer was registered twice.
C32_UsageIsSumOfRecords == tracker.globalStats.currentUsage = SumSizes(Recorded(tracker))

\* the track calls a caller makes that never registers a pointer the table holds
NextTrackerDistinct ==
    \/ \E ptr \in TrackedPtrs \ DOMAIN tracker.allocations, size \in TrackedSizes :
          TTrackAllocation(ptr, size)
    \/ \E ptr \in TrackedPtrs : TTrackDeallocation(ptr)
    \/ \E oldPtr \in TrackedPtrs, newPtr \in TrackedPtrs, newSize \in TrackedSizes :
          /\ newPtr \notin DOMAIN tracker.allocations \ {oldPtr}
          /\ TTrackReallocation(oldPtr, newPtr, newSize)

SpecTrackerDistinct == InitTracker /\ [][NextTrackerDistinct]_vars

\* C33: allocationCount - deallocationCount equals the number of records of
\* getActiveAllocations() when no pointer is registered while it has a record.
C33_CountsMatchRecords ==
    WSub(tracker.globalStats.allocationCount, tracker.globalStats.deallocationCount)
        = Cardinality(DOMAIN tracker.allocations)

----------------------------------------------------------------------------
\* Statistics of the allocators.

PeakBoundsUsage(s) == s.peakUsage >= s.currentUsage

\* C34: peakUsage >= currentUsage in the statistics of the pool, of the stack
\* allocator and of the tracker, the counters being machine words.
C34_PeakBoundsUsage ==
    /\ PeakBoundsUsage(pool.stats)
    /\ PeakBoundsUsage(stack.stats)
    /\ PeakBoundsUsage(tracker.globalStats)

\* C35: the stack allocator's currentUsage never exceeds getCurrentOffset(): what
\* freeToMarker released is not counted as in use.
C35_UsageWithinOffset == stack.stats.currentUsage <= stack.currentOffset

\* C36: the stack allocator's offset stays within 0..totalSize, and a successful
\* allocate(size, alignment) returns an aligned pointer whose range [ptr, ptr+size)
\* lies in the arena, starts at or after the offset before the call and ends at
\* the offset after it, whatever the size.
C36_AllocateStaysInArena ==
    /\ [](stack.currentOffset >= 0 /\ stack.currentOffset <= stack.totalSize)
    /\ [][\A size \in AnyRequests, alignment \in StackAlignments :
             (SAllocate(size, alignment) /\ called'.arg # NullPtr) =>
                 /\ called'.arg % alignment = 0
                 /\ called'.arg >= stack.memory + stack.currentOffset
                 /\ called'.arg + size <= stack.memory + stack.totalSize
                 /\ called'.arg + size = stack'.memory + stack'.currentOffset]_vars

----------------------------------------------------------------------------
\* The block MemoryPool::allocate takes, and how it splits it.

\* the positions of the free list whose block is free and has room for the request
FitPositions(p, size, alignment) ==
    {i \in 1..Len(p.freeBlocks) :
        ~p.blocks[p.freeBlocks[i]].used /\ Fits(p.blocks[p.freeBlocks[i]], size, alignment)}

\* C37: allocate is first-fit: the pointer it returns is the aligned start of the
\* first block in free-list order that is free and has room for padding + size,
\* whatever the sizes of the later blocks; only when no block has room does the
\* pointer come from a new arena.
C37_AllocateIsFirstFit ==
    [][\A size \in Sizes, alignment \in Alignments :
          Allocate(size, alignment) =>
              \A l \in live' \ live :
                  IF FitPositions(pool, size, alignment) # {}
                  THEN \E i \in FitPositions(pool, size, alignment) :
                          /\ \A j \in FitPositions(pool, size, alignment) : i <= j
                          /\ l.ptr = AlignUp(pool.blocks[pool.freeBlocks[i]].data, alignment)
                  ELSE /\ Len(pool'.pools) = Len(pool.pools) + 1
                       /\ l.ptr \in RangeOf(pool'.pools[Len(pool'.pools)])]_vars

\* the only allocation made took the start of the first arena and split it, while
\* a smaller free block that has room for it stood in the free list before the
\* remainder
C37_Witness ==
    /\ pool.stats.allocationCount = 1
    /\ pool.stats.deallocationCount = 0
    /\ Len(pool.pools) = 2
    /\ \E l \in live :
          /\ l.ptr = pool.pools[1].base
          /\ \E i, j \in 1..Len(pool.freeBlocks) :
                /\ i < j
                /\ pool.blocks[pool.freeBlocks[j]].data = l.ptr + l.size
                /\ ~pool.blocks[pool.freeBlocks[i]].used
                /\ pool.blocks[pool.freeBlocks[i]].data = pool.pools[2].base
                /\ pool.blocks[pool.freeBlocks[i]].size >= l.size
                /\ pool.blocks[pool.freeBlocks[i]].size < pool.pools[1].size

\* the block of p that starts at data (NoBlock for none)
BlockAt(p, data) ==
    IF \E b \in DOMAIN p.blocks : p.blocks[b].data = data
    THEN CHOOSE b \in DOMAIN p.blocks : p.blocks[b].data = data
    ELSE NoBlock

\* the used block of p that holds ptr
UsedBlockOf(p, ptr) ==
    CHOOSE b \in DOMAIN p.blocks :
        /\ p.blocks[b].used
        /\ ptr >= p.blocks[b].data
        /\ ptr < p.blocks[b].data + p.blocks[b].size

\* what allocate, having returned the allocation l, did to the block it chose:
\* `before` is the size the block had when it was found
SplitAsClaimed(before, after, l) ==
    LET b == UsedBlockOf(after, l.ptr)
        blk == after.blocks[b]
        used == (l.ptr - blk.data) + l.size
        remainder == before - used
    IN
    /\ IF remainder >= after.config.blockSize
       THEN /\ blk.size = used
            /\ blk.next # NoBlock
            /\ after.blocks[blk.next] = [data |-> blk.data + used, size |-> remainder,
                                         used |-> FALSE, next |-> after.blocks[blk.next].next,
                                         prev |-> b]
            /\ \E i \in 1..Len(after.freeBlocks) : after.freeBlocks[i] = blk.next
            /\ blk.data + used \in DOMAIN after.blockMap
            /\ after.blockMap[blk.data + used] = blk.next
       ELSE blk.size = before
    /\ blk.size - used < after.config.blockSize

\* C38: a successful allocate splits the block it chose exactly when the remainder
\* (block size - padding - size) is at least config.blockSize, the new free block
\* starting right after the used part and covering the whole remainder; otherwise
\* the block keeps its size; so the unused tail of the used block is below blockSize.
C38_SplitsExactlyAtBlockSize ==
    [][\A size \in Sizes, alignment \in Alignments :
          Allocate(size, alignment) =>
              \A l \in live' \ live :
                  LET data == pool'.blocks[UsedBlockOf(pool', l.ptr)].data IN
                  SplitAsClaimed(IF BlockAt(pool, data) # NoBlock
                                 THEN pool.blocks[BlockAt(pool, data)].size
                                 ELSE pool'.pools[Len(pool'.pools)].size,
                                 pool', l)]_vars

\* one allocation that left a tail in its block, and one whose block was split
C38_Witness ==
    /\ pool.stats.deallocationCount = 0
    /\ \E l \in live :
          LET blk == pool.blocks[UsedBlockOf(pool, l.ptr)] IN
          /\ blk.size - (l.ptr - blk.data) - l.size > 0
          /\ blk.next = NoBlock
    /\ \E l \in live :
          LET blk == pool.blocks[UsedBlockOf(pool, l.ptr)] IN
          /\ blk.size = (l.ptr - blk.data) + l.size
          /\ blk.next # NoBlock
          /\ ~pool.blocks[blk.next].used

----------------------------------------------------------------------------
\* One facade allocation registered by the pool and by the facade.

\* C39: a MemoryManager::allocate served by a default pool with pool-level
\* tracking on is counted twice and recorded once: allocationCount rises by 2,
\* totalAllocated and currentUsage by twice the size, and the table holds one
\* record for the pointer, with the caller's tag, file and line.
C39_ServedAllocationCountedTwice ==
    [][\A size \in MgrSizes, alignment \in MgrAlignments, site \in CallSites :
          (/\ MgrAllocateCall(size, alignment, site)
           /\ mgr.initialized
           /\ tracker.trackingEnabled
           /\ mgr.defaultPool[1].config.enableTracking) =>
              \A l \in live' \ live :
                  l.by = "default" =>
                      /\ tracker'.globalStats.allocationCount
                            = WAdd(tracker.globalStats.allocationCount, 2)
                      /\ tracker'.globalStats.totalAllocated
                            = WAdd(tracker.globalStats.totalAllocated, WAdd(size, size))
                      /\ tracker'.globalStats.currentUsage
                            = WAdd(tracker.globalStats.currentUsage, WAdd(size, size))
                      /\ DOMAIN tracker'.allocations = DOMAIN tracker.allocations \cup {l.ptr}
                      /\ tracker'.allocations[l.ptr]
                            = [size |-> size, alignment |-> alignment, tag |-> site.tag,
                               file |-> site.file, line |-> site.line]]_vars

\* the one allocation made was served by the tracking default pool: two counted,
\* one record, under the caller's tag
C39_Witness ==
    /\ mgr.initialized
    /\ mgr.defaultPool[1].config.enableTracking
    /\ \E l \in live :
          /\ l.by = "default"
          /\ DOMAIN tracker.allocations = {l.ptr}
          /\ tracker.allocations[l.ptr].tag \in {s.tag : s \in CallSites}
          /\ tracker.globalStats.allocationCount = 2
          /\ tracker.globalStats.currentUsage = 2 * l.size

----------------------------------------------------------------------------
\* The block MemoryPool::deallocate releases.

\* the used blocks of p whose range [data, data + size) holds ptr
UsedBlocksHolding(p, ptr) ==
    {b \in DOMAIN p.blocks :
        /\ p.blocks[b].used
        /\ ptr >= p.blocks[b].data
        /\ ptr < p.blocks[b].data + p.blocks[b].size}

\* block b of `before` was released and coalesced: in `after` one free block
\* covers it, begins at b's free predecessor if there was one, ends where b's free
\* successor ended if there was one, and has no free neighbour
Coalesced(before, after, b) ==
    LET blk == before.blocks[b]
        prevFree == blk.prev # NoBlock /\ ~before.blocks[blk.prev].used
        nextFree == blk.next # NoBlock /\ ~before.blocks[blk.next].used
        from == IF prevFree THEN before.blocks[blk.prev].data ELSE blk.data
        to == IF nextFree THEN before.blocks[blk.next].data + before.blocks[blk.next].size
              ELSE blk.data + blk.size
    IN \E c \in DOMAIN after.blocks :
          /\ after.blocks[c].data = from
          /\ after.blocks[c].size = to - from
          /\ ~after.blocks[c].used
          /\ after.blocks[c].next # NoBlock => after.blocks[after.blocks[c].next].used
          /\ after.blocks[c].prev # NoBlock => after.blocks[after.blocks[c].prev].used

\* C40: deallocate(p) releases the used block whose range [data, data + size)
\* holds p, whether or not p is the pointer allocate returned: the block becomes
\* free, the statistics count one deallocation of the block's size, and the block
\* is merged with its free neighbours.
C40_DeallocateByContainment ==
    [][\A ptr \in PtrInputs(pool) :
          Deallocate(ptr) =>
              \A b \in UsedBlocksHolding(pool, ptr) :
                  /\ UsedBlocksHolding(pool', ptr) = {}
                  /\ pool'.stats.deallocationCount = WAdd(pool.stats.deallocationCount, 1)
                  /\ pool'.stats.totalFreed = WAdd(pool.stats.totalFreed, pool.blocks[b].size)
                  /\ pool'.stats.currentUsage
                        = WSub(pool.stats.currentUsage, pool.blocks[b].size)
                  /\ Coalesced(pool, pool', b)]_vars

\* the one allocation of a tracking pool was released through a pointer other
\* than the one allocate returned: every block is free again and the tracker
\* still holds the record
C40_Witness ==
    /\ pool.config.enableTracking
    /\ pool.stats.allocationCount = 1
    /\ pool.stats.deallocationCount = 1
    /\ \A b \in DOMAIN pool.blocks : ~pool.blocks[b].used
    /\ live = {}
    /\ DOMAIN tracker.allocations # {}

====
